---- MODULE Spec2Model ----
(***************************************************************************)
(* Conversation orchestration engine of the messaging service: the flow    *)
(* table and StateMachine.transition, the rate limiter, the outbound       *)
(* dispatch views, the inbound webhook views and the timeout sweep.        *)
(***************************************************************************)
EXTENDS Integers, Sequences, FiniteSets, TLC

VARIABLES
    contacts,      \* the ContactProfile rows, per contact id
    convs,         \* Conversation rows, in creation order
    msgs,          \* Message rows, in creation order
    cache,         \* rate-limit counters of the cache, per contact id
    hub,           \* Hub notification attempts, counted per (event_type, subject)
    adapterCalls,  \* sends the last operation handed to a channel adapter
    now,           \* the clock, in minutes
    last,          \* the last completed operation and its outcome
    procs          \* step-level specifications: the requests in flight;
                   \* elsewhere: the deployment as the handlers see it (the
                   \* Hub endpoint, the provider API, the webhook secrets
                   \* and the request at the door)

vars == <<contacts, convs, msgs, cache, hub, adapterCalls, now, last, procs>>

None == "none"

\* ---------------------------------------------------------------- bounds
MaxConvs == 2
MaxMsgs == 3
MaxTime == 1
MaxStatusUpdates == 2
MaxOptOuts == 1

\* ------------------------------------------------------------ flow table
EmptyMap == [x \in {} |-> None]

MutFlowReplyFromProcessing ==
    ( "clarification" :>
        ( "initial" :> ("on_send" :> "awaiting_response")
       @@ "awaiting_response" :> ("on_reply" :> "processing" @@ "on_timeout" :> "timed_out")
       @@ "processing" :> ("on_complete" :> "completed" @@ "on_followup" :> "awaiting_response"
                           @@ "on_reply" :> "completed")
       @@ "timed_out" :> EmptyMap
       @@ "completed" :> EmptyMap )
   @@ "digest" :>
        ( "initial" :> ("on_send" :> "awaiting_review")
       @@ "awaiting_review" :> ("on_reply" :> "processing" @@ "on_timeout" :> "timed_out")
       @@ "processing" :> ("on_complete" :> "completed")
       @@ "timed_out" :> EmptyMap
       @@ "completed" :> EmptyMap )
   @@ "reminder" :>
        ( "initial" :> ("on_send" :> "notified")
       @@ "notified" :> ("on_reply" :> "acknowledged")
       @@ "acknowledged" :> EmptyMap )
   @@ "monthly_call_defer" :>
        ( "initial" :> ("on_send" :> "notified")
       @@ "notified" :> EmptyMap )
   @@ "accountant_digest" :>
        ( "initial" :> ("on_send" :> "awaiting_action")
       @@ "awaiting_action" :> ("on_reply" :> "processing" @@ "on_timeout" :> "expired")
       @@ "processing" :> ("on_complete" :> "completed")
       @@ "expired" :> EmptyMap
       @@ "completed" :> EmptyMap )
   @@ "weekly_batch" :>
        ( "initial" :> ("on_send" :> "awaiting_responses")
       @@ "awaiting_responses" :> ("on_reply" :> "processing" @@ "on_timeout" :> "timed_out")
       @@ "processing" :> ("on_complete" :> "completed" @@ "on_followup" :> "awaiting_responses")
       @@ "timed_out" :> EmptyMap
       @@ "completed" :> EmptyMap ) )

FLOW_DEFINITIONS ==
    ( "clarification" :>
        ( "initial" :> ("on_send" :> "awaiting_response")
       @@ "awaiting_response" :> ("on_reply" :> "processing" @@ "on_timeout" :> "timed_out")
       @@ "processing" :> ("on_complete" :> "completed" @@ "on_followup" :> "awaiting_response")
       @@ "timed_out" :> EmptyMap
       @@ "completed" :> EmptyMap )
   @@ "digest" :>
        ( "initial" :> ("on_send" :> "awaiting_review")
       @@ "awaiting_review" :> ("on_reply" :> "processing" @@ "on_timeout" :> "timed_out")
       @@ "processing" :> ("on_complete" :> "completed")
       @@ "timed_out" :> EmptyMap
       @@ "completed" :> EmptyMap )
   @@ "reminder" :>
        ( "initial" :> ("on_send" :> "notified")
       @@ "notified" :> ("on_reply" :> "acknowledged")
       @@ "acknowledged" :> EmptyMap )
   @@ "monthly_call_defer" :>
        ( "initial" :> ("on_send" :> "notified")
       @@ "notified" :> EmptyMap )
   @@ "accountant_digest" :>
        ( "initial" :> ("on_send" :> "awaiting_action")
       @@ "awaiting_action" :> ("on_reply" :> "processing" @@ "on_timeout" :> "expired")
       @@ "processing" :> ("on_complete" :> "completed")
       @@ "expired" :> EmptyMap
       @@ "completed" :> EmptyMap )
   @@ "weekly_batch" :>
        ( "initial" :> ("on_send" :> "awaiting_responses")
       @@ "awaiting_responses" :> ("on_reply" :> "processing" @@ "on_timeout" :> "timed_out")
       @@ "processing" :> ("on_complete" :> "completed" @@ "on_followup" :> "awaiting_responses")
       @@ "timed_out" :> EmptyMap
       @@ "completed" :> EmptyMap ) )

FlowNames == DOMAIN FLOW_DEFINITIONS

Events == {"on_send", "on_reply", "on_timeout", "on_complete", "on_followup"}

Statuses == {"active", "waiting_reply", "timed_out", "completed", "failed"}

AwaitingStates ==
    {"awaiting_response", "awaiting_review", "awaiting_action", "awaiting_responses"}

\* acknowledged answers a further reply by going back to notified
MutLookupAcknowledgedReopens(context_type, current_state, event) ==
    LET flow == IF context_type \in DOMAIN FLOW_DEFINITIONS
                THEN FLOW_DEFINITIONS[context_type] ELSE EmptyMap
        current_transitions == IF current_state \in DOMAIN flow
                               THEN flow[current_state] ELSE EmptyMap
    IN  IF current_state = "acknowledged" /\ event = "on_reply" THEN "notified"
        ELSE IF event \in DOMAIN current_transitions
        THEN current_transitions[event] ELSE None

\* the digest flow given the follow-up edge of the clarification flow
MutLookupDigestFollowup(context_type, current_state, event) ==
    LET flow == IF context_type \in DOMAIN FLOW_DEFINITIONS
                THEN FLOW_DEFINITIONS[context_type] ELSE EmptyMap
        current_transitions == IF current_state \in DOMAIN flow
                               THEN flow[current_state] ELSE EmptyMap
    IN  IF context_type = "digest" /\ current_state = "processing" /\ event = "on_followup"
        THEN "awaiting_review"
        ELSE IF event \in DOMAIN current_transitions
        THEN current_transitions[event] ELSE None

\* FLOW_DEFINITIONS.get(context_type, {}).get(current_state, {}).get(event)
LookupNewState(context_type, current_state, event) ==
    LET flow == IF context_type \in DOMAIN FLOW_DEFINITIONS
                THEN FLOW_DEFINITIONS[context_type] ELSE EmptyMap
        current_transitions == IF current_state \in DOMAIN flow
                               THEN flow[current_state] ELSE EmptyMap
    IN  IF event \in DOMAIN current_transitions
        THEN current_transitions[event] ELSE None

\* The status branch of transition: the status after moving into new_state.
MutDeriveStatusAwaitingActive(new_state, status) ==
    IF new_state \in {"timed_out", "expired"} THEN "timed_out"
    ELSE IF new_state = "completed" THEN "completed"
    ELSE IF new_state \in AwaitingStates THEN "active"
    ELSE status

\* the timed-out states leave the status as it was
MutDeriveStatusTimedOutKeeps(new_state, status) ==
    IF new_state = "completed" THEN "completed"
    ELSE IF new_state \in AwaitingStates THEN "waiting_reply"
    ELSE status

DeriveStatus(new_state, status) ==
    IF new_state \in {"timed_out", "expired"} THEN "timed_out"
    ELSE IF new_state = "completed" THEN "completed"
    ELSE IF new_state \in AwaitingStates THEN "waiting_reply"
    ELSE status

\* update_fields of the save in transition; updated_at is not a modelled
\* column, last_activity_at is not in the list.
TransitionUpdateFields == {"current_state", "status", "updated_at"}

\* Model.save(update_fields=fields): the listed columns of the row take the
\* values of the in-memory object, the others keep the stored values.
SaveFields(row, mem, fields) ==
    [f \in DOMAIN row |-> IF f \in fields THEN mem[f] ELSE row[f]]

\* StateMachine.transition on the in-memory object `conversation`:
\*   ret   the returned value (new state or None)
\*   mem   the in-memory object afterwards
\*   saved the update_fields of the save it made, {} when it made none
\*   old_state the state the transition started from
MutTransitionTouchesInvalid(conversation, event) ==
    LET new_state == LookupNewState(conversation.context_type,
                                    conversation.current_state, event)
    IN  IF new_state = None
        THEN [ret |-> None,
              mem |-> [conversation EXCEPT !.status = "failed"],
              saved |-> TransitionUpdateFields,
              old_state |-> conversation.current_state]
        ELSE [ret |-> new_state,
              mem |-> [conversation EXCEPT
                          !.current_state = new_state,
                          !.status = DeriveStatus(new_state, conversation.status)],
              saved |-> TransitionUpdateFields,
              old_state |-> conversation.current_state]

MutTransitionSavesChangedFields(conversation, event) ==
    LET new_state == LookupNewState(conversation.context_type,
                                    conversation.current_state, event)
    IN  IF new_state = None
        THEN [ret |-> None, mem |-> conversation, saved |-> {},
              old_state |-> conversation.current_state]
        ELSE [ret |-> new_state,
              mem |-> [conversation EXCEPT
                          !.current_state = new_state,
                          !.status = DeriveStatus(new_state, conversation.status)],
              saved |-> IF DeriveStatus(new_state, conversation.status) = conversation.status
                        THEN {"current_state", "updated_at"}
                        ELSE TransitionUpdateFields,
              old_state |-> conversation.current_state]

transition(conversation, event) ==
    LET new_state == LookupNewState(conversation.context_type,
                                    conversation.current_state, event)
    IN  IF new_state = None
        THEN [ret |-> None, mem |-> conversation, saved |-> {},
              old_state |-> conversation.current_state]
        ELSE [ret |-> new_state,
              mem |-> [conversation EXCEPT
                          !.current_state = new_state,
                          !.status = DeriveStatus(new_state, conversation.status)],
              saved |-> TransitionUpdateFields,
              old_state |-> conversation.current_state]

\* The stored row after transition ran on the in-memory object loaded from
\* it earlier.
RowAfterTransition(row, t) == SaveFields(row, t.mem, t.saved)


\* ------------------------------------------------------------- contacts
\* Three contacts: 1 prefers the phone-based channel, 2 the chat-based one,
\* 3 the chat-based one with no chat id (and no phone) on record.
ContactIds == {1, 2, 3}
UnknownContact == 0

\* telegram_chat_id 0 stands for an empty value, phone_e164 is a sequence of
\* characters
InitialContacts ==
    ( 1 :> [is_active |-> TRUE, preferred_channel |-> "whatsapp",
            phone_e164 |-> <<"+", "1", "5">>, telegram_chat_id |-> 0]
   @@ 2 :> [is_active |-> TRUE, preferred_channel |-> "telegram",
            phone_e164 |-> <<"+", "1", "6">>, telegram_chat_id |-> 7]
   @@ 3 :> [is_active |-> TRUE, preferred_channel |-> "telegram",
            phone_e164 |-> <<>>, telegram_chat_id |-> 0] )

PreferredChannel(c) == contacts[c].preferred_channel

PhoneE164(c) == contacts[c].phone_e164

TelegramChatId(c) == contacts[c].telegram_chat_id

\* _get_adapter: the channel of the adapter chosen for the contact
GetAdapter(c) == IF PreferredChannel(c) = "telegram" THEN "telegram" ELSE "whatsapp"

\* _get_recipient: None when the chat-based channel has no chat id
GetRecipient(c, channel) ==
    IF channel = "telegram"
    THEN (IF TelegramChatId(c) = 0 THEN None ELSE <<"chat", TelegramChatId(c)>>)
    ELSE <<"phone", PhoneE164(c)>>

\* ---------------------------------------------------------- rate limiter
MAX_MESSAGES_PER_HOUR == 10
MAX_MESSAGES_PER_DAY == 30

\* cache.set(..., timeout=3600) and cache.set(..., timeout=86400): the life
\* of the two entries, in half hours
HOUR_TTL == 2
DAY_TTL == 48

\* cache.get(key, 0): an absent or expired entry reads as 0
CacheGet(count, ttl) == IF ttl = 0 THEN 0 ELSE count

HourlyCount(cch, c) == CacheGet(cch[c].hourly, cch[c].hourly_ttl)
DailyCount(cch, c) == CacheGet(cch[c].daily, cch[c].daily_ttl)

\* the hourly quota is tested after the daily one
MutRateLimiterCheckDailyFirst(cch, c) ==
    IF DailyCount(cch, c) >= MAX_MESSAGES_PER_DAY
    THEN [allowed |-> FALSE, reason |-> "daily"]
    ELSE IF HourlyCount(cch, c) >= MAX_MESSAGES_PER_HOUR
    THEN [allowed |-> FALSE, reason |-> "hourly"]
    ELSE [allowed |-> TRUE, reason |-> ""]

\* RateLimiter.check: (allowed, reason); reads the two entries only
RateLimiterCheck(cch, c) ==
    IF HourlyCount(cch, c) >= MAX_MESSAGES_PER_HOUR
    THEN [allowed |-> FALSE, reason |-> "hourly"]
    ELSE IF DailyCount(cch, c) >= MAX_MESSAGES_PER_DAY
    THEN [allowed |-> FALSE, reason |-> "daily"]
    ELSE [allowed |-> TRUE, reason |-> ""]

\* RateLimiter.record: both counters of the contact grow by one, and each
\* entry is written again with its full life
RateLimiterRecord(cch, c) ==
    [cch EXCEPT ![c] = [hourly |-> HourlyCount(cch, c) + 1, hourly_ttl |-> HOUR_TTL,
                        daily |-> DailyCount(cch, c) + 1, daily_ttl |-> DAY_TTL]]

\* an entry n half hours later: gone when its life has run out
Aged(count, ttl, n) ==
    IF ttl > n THEN [count |-> count, ttl |-> ttl - n] ELSE [count |-> 0, ttl |-> 0]

\* the cache n half hours later
CacheAfter(cch, n) ==
    [c \in DOMAIN cch |->
        [hourly |-> Aged(cch[c].hourly, cch[c].hourly_ttl, n).count,
         hourly_ttl |-> Aged(cch[c].hourly, cch[c].hourly_ttl, n).ttl,
         daily |-> Aged(cch[c].daily, cch[c].daily_ttl, n).count,
         daily_ttl |-> Aged(cch[c].daily, cch[c].daily_ttl, n).ttl]]

\* ----------------------------------------------------------- data model
\* Conversation.objects.create(... current_state="initial", status="active")
NewConversation(c, ct, tmo, t) ==
    [contact |-> c, context_type |-> ct, current_state |-> "initial",
     status |-> "active", last_activity_at |-> t, timeout_minutes |-> tmo]

NullTime == -1

\* Message.objects.create(...); conversation 0 is no conversation,
\* channel_message_id 0 is the empty string
NewMessage(cv, dir, cmid, st) ==
    [conversation |-> cv, direction |-> dir, channel_message_id |-> cmid,
     status |-> st, error |-> FALSE, sent_at |-> NullTime,
     delivered_at |-> NullTime, read_at |-> NullTime]

\* The id the provider returns for the k-th stored message: provider ids of
\* outbound messages are fresh.
ProviderMessageId(k) == 100 + k

\* ----------------------------------------------------------- hub notifier
\* HubCallbackService.notify: one attempt per call, counted per key
HubNotify(h, key) ==
    IF key \in DOMAIN h THEN [h EXCEPT ![key] = @ + 1] ELSE h @@ (key :> 1)

\* What a POST to the Hub endpoint can come to.
NotifyResponses == {"2xx", "non-2xx", "timeout", "network error"}

\* notify with one more attempt after a failed one
MutNotifyRetriesOnce(webhook_url, response) ==
    IF webhook_url = ""
    THEN [posts |-> 0, ret |-> FALSE]
    ELSE [posts |-> IF response = "2xx" THEN 1 ELSE 2, ret |-> response = "2xx"]

\* HubCallbackService.notify as its caller sees it: the POSTs it makes and
\* the value it returns.  raise_for_status turns a non-2xx answer into an
\* exception, and every exception ends in `return False`.
notify(webhook_url, response) ==
    IF webhook_url = ""
    THEN [posts |-> 0, ret |-> FALSE]
    ELSE [posts |-> 1, ret |-> response = "2xx"]

\* The Hub endpoint: the configured HUB_WEBHOOK_URL, how the endpoint answers
\* at present, the POSTs it has been sent and what notify returned last.
HubEndpoint(webhook_url, response) ==
    [webhook_url |-> webhook_url, response |-> response, posts |-> 0, returned |-> FALSE]

\* The endpoint after n calls of notify in a row.
AfterNotify(ep, n) ==
    LET r == notify(ep.webhook_url, ep.response)
    IN  IF n = 0 THEN ep
        ELSE [ep EXCEPT !.posts = @ + n * r.posts, !.returned = r.ret]

RECURSIVE HubNotifyAll(_, _)
HubNotifyAll(h, keys) ==
    IF keys = {} THEN h
    ELSE LET k == CHOOSE x \in keys : TRUE
         IN  HubNotifyAll(HubNotify(h, k), keys \ {k})

RECURSIVE SumOver(_, _)
SumOver(f, S) ==
    IF S = {} THEN 0
    ELSE LET k == CHOOSE x \in S : TRUE IN f[k] + SumOver(f, S \ {k})

HubTotal == SumOver(hub, DOMAIN hub)

HubCount(event_type) == SumOver(hub, {k \in DOMAIN hub : k[1] = event_type})

\* ------------------------------------------------------- last operation
Done(op, code, detail, ret, cv, arg) ==
    [op |-> op, code |-> code, detail |-> detail, ret |-> ret, conv |-> cv,
     arg |-> arg]

NoOp == Done("init", 0, "", None, 0, <<>>)

\* ------------------------------------------------------ outbound dispatch
\* StartConversationSerializer.context_type: a ChoiceField over the six flows
MutValidContextTypeAny(ct) == TRUE

ValidContextType(ct) ==
    ct \in {"clarification", "digest", "reminder", "monthly_call_defer",
            "accountant_digest", "weekly_batch"}

\* CreateContactView.post for an existing contact, with a payload that
\* changes preferred_channel: setattr for every key, then contact.save()
UpdateContact(c, channel) ==
    /\ c \in ContactIds
    /\ contacts' = [contacts EXCEPT ![c].preferred_channel = channel]
    /\ last' = Done("contact", 200, channel, None, 0, <<c>>)
    /\ adapterCalls' = {} /\ UNCHANGED <<convs, msgs, cache, hub, now, procs>>

\* One send handed to a channel adapter. `checked` tells whether a
\* RateLimiter.check for the contact returned allowed earlier in the same
\* unit of work, `result` what the call produced: "ok" a provider id,
\* "error" an adapter-reported error, "raise" an exception.
AdapterSend(path, channel, checked, result) ==
    [path |-> path, channel |-> channel, checked |-> checked, result |-> result]

\* What a POST to a provider API can come to.
ProviderResponses == {"2xx", "non-2xx", "timeout", "network error"}

\* _send without the catch-all handler: only HTTPStatusError is caught
MutWhatsAppSendCatchesStatusOnly(configured, response) ==
    IF ~configured
    THEN [raised |-> FALSE, ok |-> FALSE, error |-> "WhatsApp not configured", has_id |-> FALSE]
    ELSE IF response = "2xx"
    THEN [raised |-> FALSE, ok |-> TRUE, error |-> "", has_id |-> TRUE]
    ELSE IF response = "non-2xx"
    THEN [raised |-> FALSE, ok |-> FALSE, error |-> "HTTPStatusError", has_id |-> FALSE]
    ELSE [raised |-> TRUE, ok |-> FALSE, error |-> "", has_id |-> FALSE]

\* WhatsAppAdapter._send: the dict it returns. error "" stands for a dict
\* without the key "error", has_id for messages[0].id being there.
WhatsAppSend(configured, response) ==
    IF ~configured
    THEN [raised |-> FALSE, ok |-> FALSE, error |-> "WhatsApp not configured", has_id |-> FALSE]
    ELSE IF response = "2xx"
    THEN [raised |-> FALSE, ok |-> TRUE, error |-> "", has_id |-> TRUE]
    ELSE IF response = "non-2xx"
    THEN [raised |-> FALSE, ok |-> FALSE, error |-> "HTTPStatusError", has_id |-> FALSE]
    ELSE [raised |-> FALSE, ok |-> FALSE, error |-> "WhatsApp API call failed", has_id |-> FALSE]

\* TelegramAdapter._call: the dict it returns, has_id for result.message_id.
TelegramCall(configured, response) ==
    IF ~configured
    THEN [raised |-> FALSE, ok |-> FALSE, error |-> "Telegram not configured", has_id |-> FALSE]
    ELSE IF response = "2xx"
    THEN [raised |-> FALSE, ok |-> TRUE, error |-> "", has_id |-> TRUE]
    ELSE IF response = "non-2xx"
    THEN [raised |-> FALSE, ok |-> FALSE, error |-> "HTTPStatusError", has_id |-> FALSE]
    ELSE [raised |-> FALSE, ok |-> FALSE, error |-> "Telegram API call failed", has_id |-> FALSE]

AdapterResult(channel, configured, response) ==
    IF channel = "telegram" THEN TelegramCall(configured, response)
    ELSE WhatsAppSend(configured, response)

\* How the send section of a dispatch view reads the adapter's answer:
\* has_error is `not result.get("ok", False)` on the chat channel and
\* `"error" in result` on the phone channel; an exception goes to the
\* view's own handler.
SendOutcome(channel, result) ==
    IF result.raised THEN "raise"
    ELSE IF channel = "telegram" THEN (IF result.ok THEN "ok" ELSE "error")
    ELSE (IF result.error # "" THEN "error" ELSE "ok")

MutMessageAfterSendStaysQueued(m, outcome, k, t) ==
    IF outcome = "ok"
    THEN [m EXCEPT !.channel_message_id = ProviderMessageId(k),
                   !.status = "sent", !.sent_at = t]
    ELSE m

\* The Message row after the send section of a dispatch view. outcome is
\* what the send produced: "ok" a provider id, "error" an adapter-reported
\* error, "raise" an exception before the row was marked sent.
MessageAfterSend(m, outcome, k, t) ==
    IF outcome = "ok"
    THEN [m EXCEPT !.channel_message_id = ProviderMessageId(k),
                   !.status = "sent", !.sent_at = t]
    ELSE [m EXCEPT !.status = "failed", !.error = TRUE]

\* SendMessageView.post for contact c; rec is what RateLimiter.record does
\* ("ok", or "raise" when the counter store fails).
SendMessageBody(c, outcome, rec) ==
    LET chk == RateLimiterCheck(cache, c)
        channel == GetAdapter(c)
        recipient == GetRecipient(c, channel)
        k == Len(msgs) + 1
        message == NewMessage(0, "outbound", 0, "queued")
        sent == MessageAfterSend(message, outcome, k, now)
    IN  IF c \notin ContactIds
        THEN /\ last' = Done("send", 404, "Contact not found", None, 0, <<c>>)
             /\ adapterCalls' = {} /\ UNCHANGED <<contacts, convs, msgs, cache, hub, now, procs>>
        ELSE IF ~chk.allowed
        THEN /\ last' = Done("send", 429, chk.reason, None, 0, <<c>>)
             /\ adapterCalls' = {} /\ UNCHANGED <<contacts, convs, msgs, cache, hub, now, procs>>
        ELSE IF recipient = None
        THEN /\ last' = Done("send", 400, "no address", None, 0, <<c>>)
             /\ adapterCalls' = {} /\ UNCHANGED <<contacts, convs, msgs, cache, hub, now, procs>>
        ELSE /\ adapterCalls' = {AdapterSend("send", channel, chk.allowed, outcome)}
             /\ IF outcome = "ok" /\ rec = "ok"
                THEN /\ msgs' = Append(msgs, sent)
                     /\ cache' = RateLimiterRecord(cache, c)
                     /\ last' = Done("send", 200, "sent", None, 0, <<c>>)
                ELSE /\ msgs' = Append(msgs, [sent EXCEPT !.status = "failed", !.error = TRUE])
                     /\ cache' = cache
                     /\ last' = Done("send", 500, "failed", None, 0, <<c>>)
             /\ UNCHANGED <<contacts, convs, hub, now, procs>>

\* The same view with the Message created before the rate-limit check.
MutSendMessageCreatesFirst(c, outcome, rec) ==
    LET chk == RateLimiterCheck(cache, c)
    IN  IF c \in ContactIds /\ ~chk.allowed
        THEN /\ msgs' = Append(msgs, NewMessage(0, "outbound", 0, "queued"))
             /\ last' = Done("send", 429, chk.reason, None, 0, <<c>>)
             /\ adapterCalls' = {} /\ UNCHANGED <<contacts, convs, cache, hub, now, procs>>
        ELSE SendMessageBody(c, outcome, rec)

SendMessage(c, outcome, rec) == SendMessageBody(c, outcome, rec)

\* StartConversationView.post
StartConversation(c, ct, tmo, outcome, rec) ==
    LET chk == RateLimiterCheck(cache, c)
        channel == GetAdapter(c)
        recipient == GetRecipient(c, channel)
        cv == Len(convs) + 1
        k == Len(msgs) + 1
        conversation == NewConversation(c, ct, tmo, now)
        message == NewMessage(cv, "outbound", 0, "queued")
        sent == MessageAfterSend(message, outcome, k, now)
        t == transition(conversation, "on_send")
        row == RowAfterTransition(conversation, t)
        \* except branch: conversation.status = "failed"; save(update_fields=["status"])
        failedEarly == SaveFields(conversation,
                                  [conversation EXCEPT !.status = "failed"], {"status"})
        failedLate == SaveFields(row, [t.mem EXCEPT !.status = "failed"], {"status"})
    IN  IF ~ValidContextType(ct)
        THEN /\ last' = Done("start", 400, "invalid", None, 0, <<c>>)
             /\ adapterCalls' = {} /\ UNCHANGED <<contacts, convs, msgs, cache, hub, now, procs>>
        ELSE IF c \notin ContactIds
        THEN /\ last' = Done("start", 404, "Contact not found", None, 0, <<c>>)
             /\ adapterCalls' = {} /\ UNCHANGED <<contacts, convs, msgs, cache, hub, now, procs>>
        ELSE IF ~chk.allowed
        THEN /\ last' = Done("start", 429, chk.reason, None, 0, <<c>>)
             /\ adapterCalls' = {} /\ UNCHANGED <<contacts, convs, msgs, cache, hub, now, procs>>
        ELSE IF recipient = None
        THEN /\ last' = Done("start", 400, "no address", None, 0, <<c>>)
             /\ adapterCalls' = {} /\ UNCHANGED <<contacts, convs, msgs, cache, hub, now, procs>>
        ELSE /\ adapterCalls' = {AdapterSend("start", channel, chk.allowed, outcome)}
             /\ IF outcome # "ok"
                THEN /\ msgs' = Append(msgs, sent)
                     /\ convs' = Append(convs, failedEarly)
                     /\ cache' = cache
                     /\ last' = Done("start", 500, "failed", None, cv, <<c>>)
                ELSE IF rec = "ok"
                THEN /\ msgs' = Append(msgs, sent)
                     /\ convs' = Append(convs, row)
                     /\ cache' = RateLimiterRecord(cache, c)
                     /\ last' = Done("start", 201, t.mem.status, t.ret, cv, <<c>>)
                ELSE /\ msgs' = Append(msgs, [sent EXCEPT !.status = "failed", !.error = TRUE])
                     /\ convs' = Append(convs, failedLate)
                     /\ cache' = cache
                     /\ last' = Done("start", 500, "failed", t.ret, cv, <<c>>)
             /\ UNCHANGED <<contacts, hub, now, procs>>

\* send_message_async: the task sends through the phone-based adapter with
\* no rate-limiter call at all.
SendMessageAsync(c, outcome) ==
    LET k == Len(msgs) + 1
        message == NewMessage(0, "outbound", 0, "queued")
        sent == MessageAfterSend(message, outcome, k, now)
    IN  IF c \notin ContactIds
        THEN /\ last' = Done("send_async", 404, "Contact not found", None, 0, <<c>>)
             /\ adapterCalls' = {} /\ UNCHANGED <<contacts, convs, msgs, cache, hub, now, procs>>
        ELSE /\ adapterCalls' = {AdapterSend("send_async", "whatsapp", FALSE, outcome)}
             /\ msgs' = Append(msgs, sent)
             /\ last' = Done("send_async", IF outcome = "ok" THEN 200 ELSE 500,
                             IF outcome = "ok" THEN "sent" ELSE "failed", None, 0, <<c>>)
             /\ UNCHANGED <<contacts, convs, cache, hub, now, procs>>

\* ------------------------------------------------------- inbound webhooks
\* str.strip() on a sequence of characters
RECURSIVE LStrip(_)
LStrip(s) == IF s # <<>> /\ Head(s) = " " THEN LStrip(Tail(s)) ELSE s

RECURSIVE RStrip(_)
RStrip(s) ==
    IF s # <<>> /\ s[Len(s)] = " " THEN RStrip(SubSeq(s, 1, Len(s) - 1)) ELSE s

Strip(s) == RStrip(LStrip(s))

LowerLetters ==
    <<"a", "b", "c", "d", "e", "f", "g", "h", "i", "j", "k", "l", "m",
      "n", "o", "p", "q", "r", "s", "t", "u", "v", "w", "x", "y", "z">>

UpperLetters ==
    <<"A", "B", "C", "D", "E", "F", "G", "H", "I", "J", "K", "L", "M",
      "N", "O", "P", "Q", "R", "S", "T", "U", "V", "W", "X", "Y", "Z">>

UpperChar(ch) ==
    IF \E i \in DOMAIN LowerLetters : LowerLetters[i] = ch
    THEN UpperLetters[CHOOSE i \in DOMAIN LowerLetters : LowerLetters[i] = ch]
    ELSE ch

\* str.upper()
Upper(s) == [i \in DOMAIN s |-> UpperChar(s[i])]

\* from_phone normalised to E.164: strip, then prefix "+" if absent
NormalizePhone(from_phone) ==
    LET p == Strip(from_phone)
    IN  IF p # <<>> /\ Head(p) = "+" THEN p ELSE <<"+">> \o p

\* ContactProfile.objects.get(phone_e164=...): 0 when no contact matches
ContactByPhone(phone) ==
    IF \E c \in ContactIds : PhoneE164(c) = phone
    THEN CHOOSE c \in ContactIds : PhoneE164(c) = phone
    ELSE UnknownContact

\* ContactProfile.objects.get(telegram_chat_id=...)
ContactByChatId(chat_id) ==
    IF \E c \in ContactIds : TelegramChatId(c) = chat_id
    THEN CHOOSE c \in ContactIds : TelegramChatId(c) = chat_id
    ELSE UnknownContact

WhatsAppOptOutKeywords ==
    { <<"S", "T", "O", "P">>,
      <<"U", "N", "S", "U", "B", "S", "C", "R", "I", "B", "E">>,
      <<"C", "A", "N", "C", "E", "L">> }

TelegramOptOutKeywords == WhatsAppOptOutKeywords \cup { <<"/", "S", "T", "O", "P">> }

IsOptOut(body, keywords) == Upper(Strip(body)) \in keywords

\* a failed conversation counts as live
MutLiveStatusesWithFailed == {"active", "waiting_reply", "failed"}

LiveStatuses == {"active", "waiting_reply"}

\* the oldest live conversation instead of the newest
MutActiveConversationOldest(c) ==
    LET live == {i \in DOMAIN convs :
                    convs[i].contact = c /\ convs[i].status \in LiveStatuses}
    IN  IF live = {} THEN 0
        ELSE CHOOSE i \in live : \A j \in live : i <= j

\* Conversation.objects.filter(contact=c, status__in=[...])
\*     .order_by("-created_at").first(): 0 when there is none
ActiveConversation(c) ==
    LET live == {i \in DOMAIN convs :
                    convs[i].contact = c /\ convs[i].status \in LiveStatuses}
    IN  IF live = {} THEN 0
        ELSE CHOOSE i \in live : \A j \in live : j <= i

\* _handle_opt_out
HandleOptOut(c, op, arg) ==
    /\ contacts' = [contacts EXCEPT ![c].is_active = FALSE]
    /\ hub' = HubNotify(hub, <<"contact.opted_out", c>>)
    /\ procs' = AfterNotify(procs, 1)
    /\ last' = Done(op, 200, "opt_out", None, 0, arg)
    /\ adapterCalls' = {} /\ UNCHANGED <<convs, msgs, cache, now>>

\* The part the three inbound handlers share: store the inbound Message,
\* attach it to the live conversation, drive on_reply, notify Hub.
RouteReply(c, cmid, op, arg) ==
    LET cv == ActiveConversation(c)
        inbound_message == NewMessage(0, "inbound", cmid, "received")
    IN  IF cv = 0
        THEN /\ msgs' = Append(msgs, inbound_message)
             /\ last' = Done(op, 200, "standalone", None, 0, arg)
             /\ UNCHANGED <<convs, hub, procs>>
        ELSE LET t == transition(convs[cv], "on_reply")
             IN  /\ msgs' = Append(msgs, [inbound_message EXCEPT !.conversation = cv])
                 /\ convs' = [convs EXCEPT ![cv] = RowAfterTransition(convs[cv], t)]
                 /\ hub' = HubNotify(hub, <<"client.replied", cv>>)
                 /\ procs' = AfterNotify(procs, 1)
                 /\ last' = Done(op, 200, "routed", t.ret, cv, arg)

\* WhatsAppWebhookView._process_inbound_message
InboundWhatsApp(from_phone, id, body) ==
    LET c == ContactByPhone(NormalizePhone(from_phone))
        arg == <<"whatsapp", from_phone, id, body>>
    IN  IF c = UnknownContact
        THEN /\ last' = Done("inbound", 200, "unknown contact", None, 0, arg)
             /\ adapterCalls' = {} /\ UNCHANGED <<contacts, convs, msgs, cache, hub, now, procs>>
        ELSE IF IsOptOut(body, WhatsAppOptOutKeywords)
        THEN HandleOptOut(c, "inbound", arg)
        ELSE /\ RouteReply(c, id, "inbound", arg)
             /\ adapterCalls' = {} /\ UNCHANGED <<contacts, cache, now>>

\* text.strip().startswith("/start")
StartsWithStart(text) ==
    LET s == Strip(text)
    IN  Len(s) >= 6 /\ SubSeq(s, 1, 6) = <<"/", "s", "t", "a", "r", "t">>

\* TelegramWebhookView._process_message
InboundTelegram(chat_id, id, text) ==
    LET c == ContactByChatId(chat_id)
        arg == <<"telegram", <<chat_id>>, id, text>>
    IN  IF chat_id = 0 \/ StartsWithStart(text) \/ c = UnknownContact
        THEN /\ last' = Done("inbound", 200, "ignored", None, 0, arg)
             /\ adapterCalls' = {} /\ UNCHANGED <<contacts, convs, msgs, cache, hub, now, procs>>
        ELSE IF IsOptOut(text, TelegramOptOutKeywords)
        THEN HandleOptOut(c, "inbound", arg)
        ELSE /\ RouteReply(c, id, "inbound", arg)
             /\ adapterCalls' = {} /\ UNCHANGED <<contacts, cache, now>>

\* TelegramWebhookView._process_callback_query: the confirmation reply goes
\* to the adapter before the contact is looked up, with no rate-limiter call.
TelegramCallback(chat_id, id, data) ==
    LET c == ContactByChatId(chat_id)
        arg == <<"callback", <<chat_id>>, id, data>>
    IN  IF chat_id = 0
        THEN /\ last' = Done("inbound", 200, "ignored", None, 0, arg)
             /\ adapterCalls' = {} /\ UNCHANGED <<contacts, convs, msgs, cache, hub, now, procs>>
        ELSE /\ adapterCalls' =
                    IF data # <<>>
                    THEN {AdapterSend("callback_reply", "telegram", FALSE, "ok")}
                    ELSE {}
             /\ IF c = UnknownContact
                THEN /\ last' = Done("inbound", 200, "unknown contact", None, 0, arg)
                     /\ UNCHANGED <<convs, msgs, hub, procs>>
                ELSE RouteReply(c, id, "inbound", arg)
             /\ UNCHANGED <<contacts, cache, now>>

\* --------------------------------------------------------- status webhook
\* status_mapping.get(new_status)
MappedStatus(new_status) ==
    IF new_status \in {"sent", "delivered", "read", "failed"} THEN new_status ELSE None

MessagesWithId(cmid) == {i \in DOMAIN msgs : msgs[i].channel_message_id = cmid}

\* WhatsAppWebhookView._process_status_update. Message.objects.get raises
\* DoesNotExist (caught: dropped) or MultipleObjectsReturned (not caught: the
\* webhook answers 500).
StatusUpdate(cmid, new_status) ==
    LET found == MessagesWithId(cmid)
        mapped == MappedStatus(new_status)
    IN  IF cmid = 0 \/ new_status = "" \/ found = {}
        THEN /\ last' = Done("status", 200, "dropped", None, 0, <<cmid, new_status>>)
             /\ adapterCalls' = {} /\ UNCHANGED <<contacts, convs, msgs, cache, hub, now, procs>>
        ELSE IF Cardinality(found) > 1
        THEN /\ last' = Done("status", 500, "multiple", None, 0, <<cmid, new_status>>)
             /\ adapterCalls' = {} /\ UNCHANGED <<contacts, convs, msgs, cache, hub, now, procs>>
        ELSE IF mapped = None
        THEN /\ last' = Done("status", 200, "unmapped", None, 0, <<cmid, new_status>>)
             /\ adapterCalls' = {} /\ UNCHANGED <<contacts, convs, msgs, cache, hub, now, procs>>
        ELSE LET i == CHOOSE x \in found : TRUE
                 m == msgs[i]
             IN  /\ msgs' = [msgs EXCEPT ![i] =
                        [m EXCEPT
                           !.status = mapped,
                           !.delivered_at =
                               IF mapped = "delivered" /\ m.delivered_at = NullTime
                               THEN now ELSE @,
                           !.read_at =
                               IF mapped = "read" /\ m.read_at = NullTime
                               THEN now ELSE @,
                           !.error = IF mapped = "failed" THEN TRUE ELSE @]]
                 /\ hub' = HubNotify(hub, <<"message.status_changed", i>>)
                 /\ procs' = AfterNotify(procs, 1)
                 /\ last' = Done("status", 200, mapped, None, 0, <<cmid, new_status>>)
                 /\ adapterCalls' = {} /\ UNCHANGED <<contacts, convs, cache, now>>

\* ---------------------------------------------------------- timeout sweep
\* the filter without the deadline
MutTimedOutIgnoresDeadline(conversation, t) ==
    conversation.status = "waiting_reply"

\* The filter of check_conversation_timeouts
TimedOut(conversation, t) ==
    /\ conversation.status = "waiting_reply"
    /\ conversation.last_activity_at <= t - conversation.timeout_minutes

\* check_conversation_timeouts, a whole run
Sweep ==
    LET due == {i \in DOMAIN convs : TimedOut(convs[i], now)}
        accepted == {i \in due : transition(convs[i], "on_timeout").ret # None}
    IN  /\ convs' = [i \in DOMAIN convs |->
                        IF i \in due
                        THEN RowAfterTransition(convs[i], transition(convs[i], "on_timeout"))
                        ELSE convs[i]]
        /\ hub' = HubNotifyAll(hub, {<<"conversation.timed_out", i>> : i \in accepted})
        /\ procs' = AfterNotify(procs, Cardinality(accepted))
        /\ last' = Done("sweep", Cardinality(accepted), "", None, 0, <<>>)
        /\ adapterCalls' = {} /\ UNCHANGED <<contacts, msgs, cache, now>>

\* Time passes.
Tick ==
    /\ now < MaxTime
    /\ now' = now + 1
    /\ last' = Done("tick", 0, "", None, 0, <<>>)
    /\ adapterCalls' = {} /\ UNCHANGED <<contacts, convs, msgs, cache, hub, procs>>

\* ------------------------------------------------------------ the system
\* What the requests carry.
RequestContacts == ContactIds \cup {UnknownContact}
AllContextTypes == FlowNames \cup {"survey"}
SomeContextTypes == {"clarification", "reminder", "survey"}
RequestTimeouts == {1}
SendOutcomes == {"ok", "error", "raise"}
RecordOutcomes == {"ok", "raise"}
InboundPhones == { <<"1", "5">>, <<"+", "1", "5">>, <<"9", "9">> }
InboundChatIds == {7, 8}
InboundIds == {1}
ReplyBody == <<"o", "k">>
StopBody == <<" ", "s", "t", "o", "p", " ">>
StatusIds == {0, 1, ProviderMessageId(1), 99}
ProviderStatuses == {"sent", "delivered", "read", "failed", "deleted"}

EmptyCache ==
    [c \in ContactIds |-> [hourly |-> 0, hourly_ttl |-> 0, daily |-> 0, daily_ttl |-> 0]]

Init ==
    /\ contacts = InitialContacts
    /\ convs = <<>>
    /\ msgs = <<>>
    /\ cache = EmptyCache
    /\ hub = EmptyMap
    /\ adapterCalls = {}
    /\ now = 0
    /\ last = NoOp
    /\ procs = HubEndpoint("url", "2xx")

Room == Len(msgs) < MaxMsgs /\ HubCount("contact.opted_out") < MaxOptOuts

StartRequests(cs, cts) ==
    /\ Len(convs) < MaxConvs
    /\ Len(msgs) < MaxMsgs
    /\ \E c \in cs, ct \in cts, tmo \in RequestTimeouts,
          outcome \in SendOutcomes, rec \in RecordOutcomes :
            StartConversation(c, ct, tmo, outcome, rec)

SendRequests(cs) ==
    /\ Len(msgs) < MaxMsgs
    /\ \E c \in cs, outcome \in SendOutcomes, rec \in RecordOutcomes :
            SendMessage(c, outcome, rec)

AsyncSends(cs) ==
    /\ Len(msgs) < MaxMsgs
    /\ \E c \in cs, outcome \in SendOutcomes : SendMessageAsync(c, outcome)

WhatsAppDeliveries(bodies) ==
    /\ Room
    /\ \E p \in InboundPhones, id \in InboundIds, body \in bodies :
            InboundWhatsApp(p, id, body)

TelegramDeliveries(bodies) ==
    /\ Room
    /\ \E ch \in InboundChatIds, id \in InboundIds, body \in bodies :
            InboundTelegram(ch, id, body)

CallbackDeliveries ==
    /\ Room
    /\ \E ch \in InboundChatIds, id \in InboundIds : TelegramCallback(ch, id, ReplyBody)

StatusDeliveries ==
    /\ HubCount("message.status_changed") < MaxStatusUpdates
    /\ \E cmid \in StatusIds, st \in ProviderStatuses : StatusUpdate(cmid, st)

\* The system, both channels, with two of the flows.
DoStartConversation == StartRequests(RequestContacts, SomeContextTypes)
DoInboundWhatsApp == WhatsAppDeliveries({ReplyBody, StopBody})
DoInboundTelegram == TelegramDeliveries({ReplyBody, StopBody})
DoTelegramCallback == CallbackDeliveries

Next ==
    \/ DoStartConversation
    \/ DoInboundWhatsApp
    \/ DoInboundTelegram
    \/ DoTelegramCallback
    \/ Sweep
    \/ Tick

Spec == Init /\ [][Next]_vars

\* The dispatch paths: every way a send reaches an adapter.
DispatchStart == StartRequests(RequestContacts, {"reminder"})
DispatchSend == SendRequests(RequestContacts)
DispatchAsync == AsyncSends({1, UnknownContact})
DispatchCallback == CallbackDeliveries
DispatchUpdate == \E ch \in {"whatsapp", "telegram"} : UpdateContact(3, ch)

NextDispatch ==
    \/ DispatchStart
    \/ DispatchSend
    \/ DispatchAsync
    \/ DispatchCallback
    \/ DispatchUpdate

SpecDispatch == Init /\ [][NextDispatch]_vars

\* The phone-based channel alone, with all six flows.
FlowStart == StartRequests({1}, AllContextTypes)
FlowInbound == WhatsAppDeliveries({ReplyBody})
\* the provider's delivery receipt for the first message sent
FlowStatus ==
    /\ HubCount("message.status_changed") = 0
    /\ StatusUpdate(ProviderMessageId(1), "delivered")

NextFlows ==
    \/ FlowStart
    \/ FlowInbound
    \/ FlowStatus
    \/ Sweep
    \/ Tick

SpecFlows == Init /\ [][NextFlows]_vars

\* The state machine alone: transition applied to any conversation, the
\* flows and states the table does not know included.
AllStates ==
    UNION {DOMAIN FLOW_DEFINITIONS[f] : f \in FlowNames} \cup {"archived"}

AllEvents == Events \cup {"on_cancel"}

InitSM ==
    /\ contacts = InitialContacts
    /\ \E ct \in AllContextTypes, st \in AllStates, status \in Statuses :
          convs = << [NewConversation(1, ct, 1, 0) EXCEPT
                         !.current_state = st, !.status = status] >>
    /\ msgs = <<>>
    /\ cache = EmptyCache
    /\ hub = EmptyMap
    /\ adapterCalls = {}
    /\ now = 0
    /\ last = NoOp
    /\ procs = <<>>

\* One call of transition on the conversation as loaded from its row.
CallTransition(event) ==
    LET conversation == convs[1]
        t == transition(conversation, event)
    IN  /\ convs' = <<RowAfterTransition(conversation, t)>>
        /\ last' = Done("transition", 0, IF t.saved # {} THEN "saved" ELSE "", t.ret, 1,
                        <<conversation, event, t.mem>>)
        /\ adapterCalls' = {} /\ UNCHANGED <<contacts, msgs, cache, hub, now, procs>>

NextSM == \E event \in AllEvents : CallTransition(event)

SpecSM == InitSM /\ [][NextSM]_vars

\* the events of the state in the clarification flow, whatever the flow
MutGetAvailableEventsOneFlow(conversation) ==
    LET flow == FLOW_DEFINITIONS["clarification"]
    IN  IF conversation.current_state \in DOMAIN flow
        THEN DOMAIN flow[conversation.current_state] ELSE {}

\* StateMachine.get_available_events: the keys of
\* FLOW_DEFINITIONS.get(context_type, {}).get(current_state, {})
get_available_events(conversation) ==
    LET flow == IF conversation.context_type \in DOMAIN FLOW_DEFINITIONS
                THEN FLOW_DEFINITIONS[conversation.context_type] ELSE EmptyMap
    IN  IF conversation.current_state \in DOMAIN flow
        THEN DOMAIN flow[conversation.current_state] ELSE {}

\* A caller asks for the available events of the conversation.
CallGetAvailableEvents ==
    /\ last' = Done("events", 0, "", None, 1, <<convs[1], get_available_events(convs[1])>>)
    /\ adapterCalls' = {} /\ UNCHANGED <<contacts, convs, msgs, cache, hub, now, procs>>

NextEvents ==
    \/ \E event \in AllEvents : CallTransition(event)
    \/ CallGetAvailableEvents

SpecEvents == InitSM /\ [][NextEvents]_vars

\* The rate limiter under load: one contact, sends until a quota denies,
\* while the hourly counter's cache entry expires now and then.
MaxRateMsgs == 31

\* time passes until the entry written with timeout=3600 expires; the one
\* written with timeout=86400 at the same moment is still there
ExpireHourly(c) ==
    /\ cache[c].hourly_ttl > 0
    /\ cache' = CacheAfter(cache, cache[c].hourly_ttl)
    /\ last' = Done("expire", 0, "hourly", None, 0, <<c>>)
    /\ adapterCalls' = {} /\ UNCHANGED <<contacts, convs, msgs, hub, now, procs>>

RateSend ==
    /\ Len(msgs) < MaxRateMsgs
    /\ SendMessage(1, "ok", "ok")

RateStart ==
    /\ Len(msgs) < MaxRateMsgs
    /\ Len(convs) < MaxConvs
    /\ StartConversation(1, "reminder", 1, "ok", "ok")

RateExpire == ExpireHourly(1)

RateUpdate == \E ch \in {"whatsapp", "telegram"} : UpdateContact(1, ch)

NextRate ==
    \/ RateSend
    \/ RateStart
    \/ RateExpire
    \/ RateUpdate

SpecRate == Init /\ [][NextRate]_vars

\* ------------------------------------------------- requests in flight
\* The same handlers at the grain of their database reads and writes: every
\* request loads its rows, works on its in-memory copies and saves them, and
\* other requests run in between (no transaction, no row lock).
Slots == {1, 2}

Idle ==
    [kind |-> "none", pc |-> "idle", loaded |-> EmptyMap, olds |-> EmptyMap,
     rets |-> EmptyMap, overlap |-> FALSE]

InFlight(p) == procs[p].pc = "loaded"

\* a new request is served by the first worker that is free
FreeSlot(p) == ~InFlight(p) /\ \A q \in Slots : q < p => InFlight(q)

OthersInFlight(p) == {q \in Slots \ {p} : InFlight(q)}

\* procs after slot p takes up a new request that starts as `rec`
Begin(p, rec) ==
    [q \in Slots |->
        IF q = p THEN [rec EXCEPT !.overlap = (OthersInFlight(p) # {})]
        ELSE IF InFlight(q) THEN [procs[q] EXCEPT !.overlap = TRUE]
        ELSE procs[q]]

InitRace ==
    /\ contacts = InitialContacts
    /\ convs = <<>>
    /\ msgs = <<>>
    /\ cache = EmptyCache
    /\ hub = EmptyMap
    /\ adapterCalls = {}
    /\ now = 0
    /\ last = NoOp
    /\ procs = [p \in Slots |-> Idle]

\* _process_inbound_message up to the conversation query: the inbound
\* Message is stored and the live conversation is loaded.
InboundBegin(p, from_phone, id) ==
    LET c == ContactByPhone(NormalizePhone(from_phone))
        cv == ActiveConversation(c)
    IN  /\ FreeSlot(p)
        /\ c # UnknownContact
        /\ msgs' = Append(msgs, NewMessage(cv, "inbound", id, "received"))
        /\ procs' = IF cv = 0
                     THEN Begin(p, [Idle EXCEPT !.kind = "inbound", !.pc = "done"])
                     ELSE Begin(p, [Idle EXCEPT !.kind = "inbound", !.pc = "loaded",
                                                !.loaded = (cv :> convs[cv])])
        /\ adapterCalls' = {} /\ UNCHANGED <<contacts, convs, cache, hub, now, last>>

\* ... then transition(active_conversation, "on_reply") on the loaded
\* object, its save, and the Hub notification.
InboundFinish(p) ==
    LET cv == CHOOSE i \in DOMAIN procs[p].loaded : TRUE
        t == transition(procs[p].loaded[cv], "on_reply")
    IN  /\ InFlight(p) /\ procs[p].kind = "inbound"
        /\ convs' = [convs EXCEPT ![cv] = RowAfterTransition(@, t)]
        /\ hub' = HubNotify(hub, <<"client.replied", cv>>)
        /\ procs' = [procs EXCEPT ![p] =
                        [@ EXCEPT !.pc = "done", !.loaded = EmptyMap,
                                  !.olds = (cv :> t.old_state), !.rets = (cv :> t.ret)]]
        /\ adapterCalls' = {} /\ UNCHANGED <<contacts, msgs, cache, now, last>>

\* check_conversation_timeouts: the queryset is evaluated when the loop
\* starts ...
SweepBegin(p) ==
    LET due == {i \in DOMAIN convs : TimedOut(convs[i], now)}
    IN  /\ FreeSlot(p)
        /\ procs' = IF due = {}
                     THEN Begin(p, [Idle EXCEPT !.kind = "sweep", !.pc = "done"])
                     ELSE Begin(p, [Idle EXCEPT !.kind = "sweep", !.pc = "loaded",
                                                !.loaded = [i \in due |-> convs[i]]])
        /\ adapterCalls' = {} /\ UNCHANGED <<contacts, convs, msgs, cache, hub, now, last>>

\* ... and one pass of the loop body for a loaded conversation.
SweepStep(p) ==
    /\ InFlight(p) /\ procs[p].kind = "sweep"
    /\ \E i \in DOMAIN procs[p].loaded :
        LET t == transition(procs[p].loaded[i], "on_timeout")
            rest == [j \in DOMAIN procs[p].loaded \ {i} |-> procs[p].loaded[j]]
        IN  /\ convs' = [convs EXCEPT ![i] = RowAfterTransition(@, t)]
            /\ hub' = IF t.ret # None
                      THEN HubNotify(hub, <<"conversation.timed_out", i>>) ELSE hub
            /\ procs' = [procs EXCEPT ![p] =
                            [@ EXCEPT !.pc = IF rest = EmptyMap THEN "done" ELSE "loaded",
                                      !.loaded = rest,
                                      !.olds = @ @@ (i :> t.old_state),
                                      !.rets = @ @@ (i :> t.ret)]]
    /\ adapterCalls' = {} /\ UNCHANGED <<contacts, msgs, cache, now, last>>

RaceFlows == {"clarification", "accountant_digest"}

\* start_conversation requests set the conversations up; a start is one
\* request, and the requests that race are the reply and the sweep.
RaceStart ==
    /\ Len(convs) < MaxConvs
    /\ Len(msgs) < MaxMsgs
    /\ \E ct \in RaceFlows, tmo \in RequestTimeouts : StartConversation(1, ct, tmo, "ok", "ok")

RaceInboundBegin ==
    /\ Len(msgs) < MaxMsgs
    /\ \E p \in Slots, id \in InboundIds : InboundBegin(p, <<"1", "5">>, id)

RaceInboundFinish == \E p \in Slots : InboundFinish(p)

RaceSweepBegin == \E p \in Slots : SweepBegin(p)

RaceSweepStep == \E p \in Slots : SweepStep(p)

NextRace ==
    \/ RaceStart
    \/ RaceInboundBegin
    \/ RaceInboundFinish
    \/ RaceSweepBegin
    \/ RaceSweepStep
    \/ Tick

SpecRace == InitRace /\ [][NextRace]_vars

\* ------------------------------------------------------ inbound events
\* Both webhooks and the button presses, with bodies that are, contain or
\* only resemble an opt-out keyword, against conversations of two contacts.
MixedStopBody == <<"S", "t", "O", "p">>
SlashStopBody == <<" ", "/", "s", "t", "o", "p">>
CancelBody == <<"C", "a", "n", "c", "e", "l">>
UnsubscribeBody == <<"u", "n", "s", "u", "b", "s", "c", "r", "i", "b", "e">>
StopItBody == <<"s", "t", "o", "p", " ", "i", "t">>
StartCommandBody == <<"/", "s", "t", "a", "r", "t">>

InboundBodies ==
    {ReplyBody, StopBody, MixedStopBody, SlashStopBody, CancelBody,
     UnsubscribeBody, StopItBody, StartCommandBody}

InboundStart ==
    /\ Len(convs) < MaxConvs
    /\ Len(msgs) < MaxMsgs
    /\ \E c \in {1, 2}, ct \in {"clarification", "reminder"}, outcome \in {"ok", "error"} :
            StartConversation(c, ct, 1, outcome, "ok")

InboundText ==
    /\ Room
    /\ \E body \in InboundBodies :
          \/ InboundWhatsApp(<<"1", "5">>, 1, body)
          \/ InboundTelegram(7, 1, body)

InboundButton ==
    /\ Room
    /\ \E data \in InboundBodies : TelegramCallback(7, 1, data)

NextInbound ==
    \/ InboundStart
    \/ InboundText
    \/ InboundButton

SpecInbound == Init /\ [][NextInbound]_vars

\* ------------------------------------------------- the limiter's cache
\* RateLimiter at the grain of its cache operations: check is two reads,
\* record is a read and a write per counter, the workers share one cache,
\* and the entries age while time passes (half hours).
MaxRecords == 10
MaxHalfHours == 2

Working(p) == procs[p].kind # "none"

\* a new call is served by the first worker that is free
FreeWorker(p) == ~Working(p) /\ \A q \in Slots : q < p => Working(q)

\* the record calls worker p has returned from
RecordsReturned(p) ==
    IF "record" \in DOMAIN procs[p].rets THEN procs[p].rets["record"] ELSE 0

RecordsCompleted == SumOver([p \in Slots |-> RecordsReturned(p)], Slots)

RecordsStarted ==
    RecordsCompleted + Cardinality({p \in Slots : procs[p].kind = "record"})

\* worker p back from a call: its count of record calls grows by `n`
Returned(p, n) ==
    [procs[p] EXCEPT !.kind = "none", !.pc = "idle", !.loaded = EmptyMap,
                     !.rets = ("record" :> RecordsReturned(p) + n)]

InitLimiter ==
    /\ contacts = InitialContacts
    /\ convs = <<>>
    /\ msgs = <<>>
    /\ cache = EmptyCache
    /\ hub = EmptyMap
    /\ adapterCalls = {}
    /\ now = 0
    /\ last = NoOp
    /\ procs = [p \in Slots |-> Idle]

\* record: hourly_count = cache.get(hourly_key, 0)
RecordGetHourly(p, c) ==
    /\ FreeWorker(p)
    /\ RecordsStarted < MaxRecords
    /\ procs' = [q \in Slots |->
                    IF q = p
                    THEN [procs[p] EXCEPT !.kind = "record", !.pc = "got_hourly",
                             !.loaded = ("contact" :> c @@ "count" :> HourlyCount(cache, c)),
                             !.overlap = @ \/ \E r \in Slots \ {p} : procs[r].kind = "record"]
                    ELSE [procs[q] EXCEPT !.overlap = @ \/ procs[q].kind = "record"]]
    /\ adapterCalls' = {} /\ UNCHANGED <<contacts, convs, msgs, cache, hub, now, last>>

\* record: cache.set(hourly_key, hourly_count + 1, timeout=3600)
RecordSetHourly(p) ==
    LET c == procs[p].loaded["contact"]
    IN  /\ procs[p].kind = "record" /\ procs[p].pc = "got_hourly"
        /\ cache' = [cache EXCEPT ![c].hourly = procs[p].loaded["count"] + 1,
                                  ![c].hourly_ttl = HOUR_TTL]
        /\ procs' = [procs EXCEPT ![p].pc = "set_hourly"]
        /\ adapterCalls' = {} /\ UNCHANGED <<contacts, convs, msgs, hub, now, last>>

\* record: daily_count = cache.get(daily_key, 0)
RecordGetDaily(p) ==
    LET c == procs[p].loaded["contact"]
    IN  /\ procs[p].kind = "record" /\ procs[p].pc = "set_hourly"
        /\ procs' = [procs EXCEPT ![p].pc = "got_daily",
                                  ![p].loaded = ("contact" :> c @@ "count" :> DailyCount(cache, c))]
        /\ adapterCalls' = {} /\ UNCHANGED <<contacts, convs, msgs, cache, hub, now, last>>

\* record: cache.set(daily_key, daily_count + 1, timeout=86400), and return
RecordSetDaily(p) ==
    LET c == procs[p].loaded["contact"]
    IN  /\ procs[p].kind = "record" /\ procs[p].pc = "got_daily"
        /\ cache' = [cache EXCEPT ![c].daily = procs[p].loaded["count"] + 1,
                                  ![c].daily_ttl = DAY_TTL]
        /\ procs' = [procs EXCEPT ![p] = Returned(p, 1)]
        /\ last' = Done("record", 0, "", None, 0, <<c>>)
        /\ adapterCalls' = {} /\ UNCHANGED <<contacts, convs, msgs, hub, now>>

\* check: hourly_count = cache.get(hourly_key, 0), and the early return
CheckGetHourly(p, c) ==
    /\ FreeWorker(p)
    /\ IF HourlyCount(cache, c) >= MAX_MESSAGES_PER_HOUR
       THEN /\ last' = Done("check", 0, "hourly", "denied", 0, <<c>>)
            /\ procs' = procs
       ELSE /\ procs' = [procs EXCEPT ![p].kind = "check", ![p].pc = "hourly_ok",
                                      ![p].loaded = ("contact" :> c)]
            /\ last' = last
    /\ adapterCalls' = {} /\ UNCHANGED <<contacts, convs, msgs, cache, hub, now>>

\* check: daily_count = cache.get(daily_key, 0), and the two other returns
CheckGetDaily(p) ==
    LET c == procs[p].loaded["contact"]
    IN  /\ procs[p].kind = "check" /\ procs[p].pc = "hourly_ok"
        /\ last' = IF DailyCount(cache, c) >= MAX_MESSAGES_PER_DAY
                   THEN Done("check", 0, "daily", "denied", 0, <<c>>)
                   ELSE Done("check", 0, "", "allowed", 0, <<c>>)
        /\ procs' = [procs EXCEPT ![p] = Returned(p, 0)]
        /\ adapterCalls' = {} /\ UNCHANGED <<contacts, convs, msgs, cache, hub, now>>

\* half an hour passes
HalfHour ==
    /\ now < MaxHalfHours
    /\ now' = now + 1
    /\ cache' = CacheAfter(cache, 1)
    /\ adapterCalls' = {} /\ UNCHANGED <<contacts, convs, msgs, hub, last, procs>>

LimiterRecordBegin == \E p \in Slots : RecordGetHourly(p, 1)

LimiterRecordSetHourly == \E p \in Slots : RecordSetHourly(p)

LimiterRecordGetDaily == \E p \in Slots : RecordGetDaily(p)

LimiterRecordReturn == \E p \in Slots : RecordSetDaily(p)

LimiterCheckBegin == \E p \in Slots : CheckGetHourly(p, 1)

LimiterCheckReturn == \E p \in Slots : CheckGetDaily(p)

NextLimiter ==
    \/ LimiterRecordBegin
    \/ LimiterRecordSetHourly
    \/ LimiterRecordGetDaily
    \/ LimiterRecordReturn
    \/ LimiterCheckBegin
    \/ LimiterCheckReturn
    \/ HalfHour

SpecLimiter == InitLimiter /\ [][NextLimiter]_vars

\* ------------------------------------------------------- hub endpoint
\* The notifying handlers against a Hub endpoint that is configured or
\* not and that answers, fails or hangs.
InitHub ==
    /\ contacts = InitialContacts
    /\ convs = <<>>
    /\ msgs = <<>>
    /\ cache = EmptyCache
    /\ hub = EmptyMap
    /\ adapterCalls = {}
    /\ now = 0
    /\ last = NoOp
    /\ \E webhook_url \in {"", "url"} : procs = HubEndpoint(webhook_url, "2xx")

\* The endpoint starts to answer differently.
HubCondition ==
    /\ \E response \in NotifyResponses \ {procs.response} :
            procs' = [procs EXCEPT !.response = response]
    /\ last' = Done("endpoint", 0, "", None, 0, <<>>)
    /\ adapterCalls' = {} /\ UNCHANGED <<contacts, convs, msgs, cache, hub, now>>

HubStart ==
    /\ Len(convs) < MaxConvs /\ Len(msgs) < MaxMsgs
    /\ StartConversation(1, "clarification", 1, "ok", "ok")

HubInbound ==
    /\ Room
    /\ \E body \in {ReplyBody, StopBody} : InboundWhatsApp(<<"1", "5">>, 1, body)

HubStatus ==
    /\ HubCount("message.status_changed") < MaxStatusUpdates
    /\ \E st \in {"delivered", "read"} : StatusUpdate(ProviderMessageId(1), st)

NextHub ==
    \/ HubCondition
    \/ HubStart
    \/ HubInbound
    \/ HubStatus
    \/ Sweep
    \/ Tick

SpecHub == InitHub /\ [][NextHub]_vars

\* ------------------------------------------------------ provider APIs
\* The dispatch views against providers whose credentials are configured
\* or not and whose API answers, refuses, hangs or is unreachable.
ProviderEndpoint(configured, response) ==
    [configured |-> configured, response |-> response]

InitAdapters ==
    /\ contacts = InitialContacts
    /\ convs = <<>>
    /\ msgs = <<>>
    /\ cache = EmptyCache
    /\ hub = EmptyMap
    /\ adapterCalls = {}
    /\ now = 0
    /\ last = NoOp
    /\ \E configured \in BOOLEAN : procs = ProviderEndpoint(configured, "2xx")

\* The provider API starts to answer differently.
AdapterCondition ==
    /\ \E response \in ProviderResponses \ {procs.response} :
            procs' = [procs EXCEPT !.response = response]
    /\ last' = Done("endpoint", 0, "", None, 0, <<>>)
    /\ adapterCalls' = {} /\ UNCHANGED <<contacts, convs, msgs, cache, hub, now>>

AdapterDispatch ==
    /\ Len(msgs) < MaxMsgs
    /\ \E c \in {1, 2} :
          SendMessage(c, SendOutcome(GetAdapter(c),
                            AdapterResult(GetAdapter(c), procs.configured, procs.response)),
                      "ok")

AdapterStart ==
    /\ Len(convs) < MaxConvs /\ Len(msgs) < MaxMsgs
    /\ \E c \in {1, 2} :
          StartConversation(c, "clarification", 1,
                            SendOutcome(GetAdapter(c),
                                AdapterResult(GetAdapter(c), procs.configured, procs.response)),
                            "ok")

NextAdapters ==
    \/ AdapterCondition
    \/ AdapterDispatch
    \/ AdapterStart

SpecAdapters == InitAdapters /\ [][NextAdapters]_vars

\* -------------------------------------------------- interactive buttons
MAX_BUTTONS == 3
MAX_TITLE_LENGTH == 20

MaxButtonCount == 4
MaxTitle == 21

\* s[:n]
Take(s, n) == SubSeq(s, 1, IF Len(s) < n THEN Len(s) ELSE n)

\* WhatsAppAdapter.send_interactive_message: action.buttons of the payload
WhatsAppInteractiveButtons(buttons) ==
    [i \in 1..Len(Take(buttons, MAX_BUTTONS)) |->
        [id |-> buttons[i].id, title |-> Take(buttons[i].title, MAX_TITLE_LENGTH)]]

\* TelegramAdapter.send_interactive_message: reply_markup.keyboard of the
\* payload, one row of one button for every input button
TelegramKeyboard(buttons) ==
    [i \in 1..Len(buttons) |-> [title |-> buttons[i].title]]

\* StartConversationSerializer.validate_buttons: TRUE when the value passes
validate_buttons(value) ==
    \/ value = <<>>
    \/ /\ Len(value) <= MAX_BUTTONS
       /\ \A i \in DOMAIN value : Len(value[i].title) <= MAX_TITLE_LENGTH

\* Button inputs: ids 1 and 2, titles of length 1, MaxTitle - 1 and MaxTitle
\* written in the character of the id, sequences of up to MaxButtonCount.
ButtonTitle(id, n) == [i \in 1..n |-> id]

Buttons ==
    {[id |-> id, title |-> ButtonTitle(id, n)] : id \in {1, 2}, n \in {1, MaxTitle - 1, MaxTitle}}

ButtonSequences == UNION {[1..n -> Buttons] : n \in 0..MaxButtonCount}

InitButtons ==
    /\ contacts = InitialContacts
    /\ convs = <<>>
    /\ msgs = <<>>
    /\ cache = EmptyCache
    /\ hub = EmptyMap
    /\ adapterCalls = {}
    /\ now = 0
    /\ procs = <<>>
    /\ \E buttons \in ButtonSequences : last = Done("buttons", 0, "", None, 0, buttons)

\* The interactive payload handed to the provider of `channel`.
InteractivePayload(path, channel, buttons) ==
    [path |-> path, channel |-> channel,
     buttons |-> IF channel = "telegram" THEN TelegramKeyboard(buttons)
                 ELSE WhatsAppInteractiveButtons(buttons)]

\* send_interactive_message of the adapter of `channel` called with the
\* buttons as they are.
SendInteractive(channel) ==
    /\ adapterCalls' = {InteractivePayload("adapter", channel, last.arg)}
    /\ last' = [last EXCEPT !.op = "interactive", !.detail = channel]
    /\ UNCHANGED <<contacts, convs, msgs, cache, hub, now, procs>>

\* The buttons of a start request: validate_buttons, then the send
\* section of StartConversationView.post (interactive only `if buttons`).
StartWithButtons(channel) ==
    /\ IF ~validate_buttons(last.arg)
       THEN /\ adapterCalls' = {}
            /\ last' = [last EXCEPT !.op = "start", !.code = 400, !.detail = channel]
       ELSE /\ adapterCalls' = IF last.arg = <<>> THEN {}
                               ELSE {InteractivePayload("start", channel, last.arg)}
            /\ last' = [last EXCEPT !.op = "start", !.code = 200, !.detail = channel]
    /\ UNCHANGED <<contacts, convs, msgs, cache, hub, now, procs>>

ButtonsWhatsApp == last.op = "buttons" /\ SendInteractive("whatsapp")
ButtonsTelegram == last.op = "buttons" /\ SendInteractive("telegram")
ButtonsStart ==
    /\ last.op = "buttons"
    /\ \E channel \in {"whatsapp", "telegram"} : StartWithButtons(channel)

NextButtons ==
    \/ ButtonsWhatsApp
    \/ ButtonsTelegram
    \/ ButtonsStart

SpecButtons == InitButtons /\ [][NextButtons]_vars

\* ------------------------------------------------------ webhook secrets
\* A header value: whether it is plain ASCII, and what it says.  The
\* signature of a body under a key is "sha256=" and the HMAC-SHA256 hex
\* digest, which is told by the key and the body it was computed from.
Header(ascii, key, body) == [ascii |-> ascii, key |-> key, body |-> body]

NoHeader == Header(TRUE, "", <<>>)

\* f"sha256={hmac.new(key, body, sha256).hexdigest()}"
Sign(key, body) == Header(TRUE, key, body)

\* hmac.compare_digest on two str values: a TypeError unless both are ASCII
compare_digest(a, b) ==
    IF ~a.ascii \/ ~b.ascii THEN "raise"
    ELSE IF a = b THEN "equal" ELSE "different"

\* WhatsAppWebhookView._verify_signature: "true", "false", or "raise"
VerifySignature(app_secret, payload_body, signature) ==
    IF app_secret = "" THEN "true"
    ELSE LET d == compare_digest(Sign(app_secret, payload_body), signature)
         IN  IF d = "raise" THEN "raise" ELSE IF d = "equal" THEN "true" ELSE "false"

\* The deployment of the webhook views: the Hub endpoint, the two secrets
\* and the request that has arrived last.
WebhookDeployment(app_secret, telegram_secret) ==
    [webhook_url |-> "url", response |-> "2xx", posts |-> 0, returned |-> FALSE,
     app_secret |-> app_secret, telegram_secret |-> telegram_secret,
     request |-> [channel |-> "none", body |-> <<>>, header |-> NoHeader]]

InitWebhooks ==
    /\ contacts = InitialContacts
    /\ convs = <<>>
    /\ msgs = <<>>
    /\ cache = EmptyCache
    /\ hub = EmptyMap
    /\ adapterCalls = {}
    /\ now = 0
    /\ last = NoOp
    /\ \E app_secret \in {"", "s"}, telegram_secret \in {"", "s"} :
            procs = WebhookDeployment(app_secret, telegram_secret)

\* The signature headers a sender can present with a body: the right one,
\* one made with another key, one made for another body, none, and one
\* that is not ASCII.
SignatureHeaders(body) ==
    {Sign("s", body), Sign("t", body), Sign("s", <<"x">>), NoHeader, Header(FALSE, "", <<>>)}

\* The secret-token headers a sender can present.
SecretHeaders == {Header(TRUE, "s", <<>>), Header(TRUE, "t", <<>>), NoHeader}

\* A POST arrives at one of the two webhook endpoints.
WebhookArrive ==
    /\ \E body \in {ReplyBody, StopBody} :
          \E request \in
                {[channel |-> "whatsapp", body |-> body, header |-> h] : h \in SignatureHeaders(body)}
                \cup {[channel |-> "telegram", body |-> body, header |-> h] : h \in SecretHeaders} :
             /\ request # procs.request
             /\ procs' = [procs EXCEPT !.request = request]
    /\ last' = Done("request", 0, "", None, 0, <<>>)
    /\ adapterCalls' = {} /\ UNCHANGED <<contacts, convs, msgs, cache, hub, now>>

\* A webhook POST answered without processing.
WebhookAnswer(code, detail) ==
    /\ last' = Done("webhook", code, detail, None, 0, <<procs.request.channel>>)
    /\ adapterCalls' = {} /\ UNCHANGED <<contacts, convs, msgs, cache, hub, now, procs>>

\* WhatsAppWebhookView.post for the request at the door, one message from
\* the phone of contact 1 in its payload.
WhatsAppPost ==
    LET request == procs.request
        verified == VerifySignature(procs.app_secret, request.body, request.header)
    IN  /\ request.channel = "whatsapp" /\ Room
        /\ IF verified = "raise" THEN WebhookAnswer(500, "TypeError")
           ELSE IF verified = "false" THEN WebhookAnswer(403, "Invalid signature")
           ELSE InboundWhatsApp(<<"1", "5">>, 1, request.body)

\* TelegramWebhookView.post for the request at the door, one message from
\* the chat of contact 2 in its update.
TelegramPost ==
    LET request == procs.request
        secret == request.header.key
        expected == procs.telegram_secret
    IN  /\ request.channel = "telegram" /\ Room
        /\ IF expected # "" /\ secret # expected
           THEN WebhookAnswer(403, "Forbidden")
           ELSE InboundTelegram(7, 1, request.body)

WebhookStart ==
    /\ Len(convs) < MaxConvs /\ Len(msgs) < MaxMsgs
    /\ \E c \in {1, 2} : StartConversation(c, "clarification", 1, "ok", "ok")

NextWebhooks ==
    \/ WebhookArrive
    \/ WhatsAppPost
    \/ TelegramPost
    \/ WebhookStart

SpecWebhooks == InitWebhooks /\ [][NextWebhooks]_vars

\* ----------------------------------------------------- status webhooks
\* Delivery receipts of any id and provider status, against Messages sent
\* and Messages received on the phone-based channel.
StatusSend ==
    /\ Len(msgs) < MaxMsgs
    /\ \E outcome \in {"ok", "error"} : SendMessage(1, outcome, "ok")

StatusInbound ==
    /\ Len(msgs) < MaxMsgs
    /\ \E id \in InboundIds : InboundWhatsApp(<<"1", "5">>, id, ReplyBody)

NextStatus ==
    \/ StatusSend
    \/ StatusInbound
    \/ StatusDeliveries
    \/ Tick

SpecStatus == Init /\ [][NextStatus]_vars

\* ------------------------------------------------ receipts in flight
\* _process_status_update at the grain of its database read and write: the
\* provider delivers receipts, and retries of receipts, to any worker.
ReceiptsInFlight == Cardinality({p \in Slots : procs[p].kind = "status"})

\* Message.objects.get(channel_message_id=...), and the status mapping
StatusLoad(p, cmid, new_status) ==
    LET found == MessagesWithId(cmid)
        mapped == MappedStatus(new_status)
        arg == <<cmid, new_status>>
    IN  /\ FreeWorker(p)
        /\ HubCount("message.status_changed") + ReceiptsInFlight < MaxStatusUpdates
        /\ IF found = {} \/ Cardinality(found) > 1 \/ mapped = None
           THEN /\ last' = IF found = {} THEN Done("status", 200, "dropped", None, 0, arg)
                           ELSE IF Cardinality(found) > 1
                           THEN Done("status", 500, "multiple", None, 0, arg)
                           ELSE Done("status", 200, "unmapped", None, 0, arg)
                /\ procs' = procs
           ELSE LET i == CHOOSE x \in found : TRUE
                IN  /\ procs' = [q \in Slots |->
                            IF q = p
                            THEN [procs[p] EXCEPT !.kind = "status", !.pc = "loaded",
                                     !.loaded = (i :> msgs[i]), !.olds = (i :> mapped),
                                     !.overlap = @ \/ ReceiptsInFlight > 0]
                            ELSE [procs[q] EXCEPT !.overlap = @ \/ procs[q].kind = "status"]]
                    /\ last' = last
        /\ adapterCalls' = {} /\ UNCHANGED <<contacts, convs, msgs, cache, hub, now>>

\* message.status = ...; the timestamps; message.save(update_fields=
\* ["status", "delivered_at", "read_at", "error_message"]); the Hub callback
StatusSave(p) ==
    LET i == CHOOSE x \in DOMAIN procs[p].loaded : TRUE
        m == procs[p].loaded[i]
        mapped == procs[p].olds[i]
        message == [m EXCEPT
                       !.status = mapped,
                       !.delivered_at =
                           IF mapped = "delivered" /\ m.delivered_at = NullTime
                           THEN now ELSE @,
                       !.read_at =
                           IF mapped = "read" /\ m.read_at = NullTime THEN now ELSE @,
                       !.error = IF mapped = "failed" THEN TRUE ELSE @]
    IN  /\ procs[p].kind = "status"
        /\ msgs' = [msgs EXCEPT ![i] =
                        SaveFields(@, message, {"status", "delivered_at", "read_at", "error"})]
        /\ hub' = HubNotify(hub, <<"message.status_changed", i>>)
        /\ last' = Done("status", 200, mapped, None, 0, <<m.channel_message_id, mapped>>)
        /\ procs' = [procs EXCEPT ![p] =
                        [@ EXCEPT !.kind = "none", !.pc = "idle",
                                  !.loaded = EmptyMap, !.olds = EmptyMap]]
        /\ adapterCalls' = {} /\ UNCHANGED <<contacts, convs, cache, now>>

ReceiptSend ==
    /\ msgs = <<>>
    /\ \E outcome \in {"ok", "error"} : SendMessage(1, outcome, "ok")
    /\ procs' = procs

ReceiptLoad ==
    \E p \in Slots, cmid \in {ProviderMessageId(1), 99}, st \in ProviderStatuses :
        StatusLoad(p, cmid, st)

ReceiptSave == \E p \in Slots : StatusSave(p)

ReceiptTick == Tick

NextReceipts ==
    \/ ReceiptSend
    \/ ReceiptLoad
    \/ ReceiptSave
    \/ ReceiptTick

SpecReceipts == InitLimiter /\ [][NextReceipts]_vars

\* ------------------------------------------ check over all counter values
\* RateLimiter.check applied to every cache the counters can be in: any
\* hourly and daily count of the asked contact, live or expired, beside
\* another contact with no counters or with both quotas used up.
MaxHourlyCount == 11
MaxDailyCount == 31

CacheEntries(hs, ds) ==
    [hourly : hs, hourly_ttl : {0, HOUR_TTL}, daily : ds, daily_ttl : {0, DAY_TTL}]

\* an expired entry holds nothing
WellFormedEntry(e) ==
    /\ (e.hourly_ttl = 0) = (e.hourly = 0)
    /\ (e.daily_ttl = 0) = (e.daily = 0)

InitCheck ==
    /\ contacts = InitialContacts
    /\ convs = <<>>
    /\ msgs = <<>>
    /\ \E e1 \in CacheEntries(0..MaxHourlyCount, 0..MaxDailyCount),
          e2 \in CacheEntries({0, MAX_MESSAGES_PER_HOUR}, {0, MAX_MESSAGES_PER_DAY}) :
            /\ WellFormedEntry(e1) /\ WellFormedEntry(e2)
            /\ cache = [EmptyCache EXCEPT ![1] = e1, ![2] = e2]
    /\ hub = EmptyMap
    /\ adapterCalls = {}
    /\ now = 0
    /\ last = NoOp
    /\ procs = <<>>

\* allowed, reason = RateLimiter().check(contact_id)
CheckCall(c) ==
    LET r == RateLimiterCheck(cache, c)
    IN  /\ last' = Done("check", 0, r.reason, IF r.allowed THEN "allowed" ELSE "denied", 0, <<c>>)
        /\ adapterCalls' = {} /\ UNCHANGED <<contacts, convs, msgs, cache, hub, now, procs>>

NextCheck == \E c \in {1, 2} : CheckCall(c)

SpecCheck == InitCheck /\ [][NextCheck]_vars

\* ------------------------------------------------------------------ claims
\* The flow table has an entry for (context_type, current_state, event).
HasEntry(ct, st, ev) ==
    /\ ct \in DOMAIN FLOW_DEFINITIONS
    /\ st \in DOMAIN FLOW_DEFINITIONS[ct]
    /\ ev \in DOMAIN FLOW_DEFINITIONS[ct][st]

CalledTransition == last.op = "transition"
CallBefore == last.arg[1]
CallEvent == last.arg[2]
CallAfter == last.arg[3]

\* C1: a transition call for which the flow table has no entry - unknown
\* context_type and undefined current_state included - returns None, leaves
\* current_state and status of the object as they were and writes nothing
\* to the stored conversation.
C1_InvalidTransitionIsNoOp ==
    (CalledTransition
        /\ ~HasEntry(CallBefore.context_type, CallBefore.current_state, CallEvent))
    => /\ last.ret = None
       /\ CallAfter.current_state = CallBefore.current_state
       /\ CallAfter.status = CallBefore.status
       /\ last.detail # "saved"
       /\ convs[1] = CallBefore

C1_Witness ==
    /\ CalledTransition
    /\ CallBefore.context_type = "reminder"
    /\ CallBefore.current_state = "archived"
    /\ CallEvent = "on_reply"
    /\ last.ret = None

\* The status the claim gives for a move into next_state from status `old`.
ClaimedStatus(next_state, old) ==
    CASE next_state \in {"awaiting_response", "awaiting_review", "awaiting_action",
                         "awaiting_responses"} -> "waiting_reply"
      [] next_state = "completed" -> "completed"
      [] next_state \in {"timed_out", "expired"} -> "timed_out"
      [] next_state \in {"notified", "acknowledged", "processing"} -> old
      [] OTHER -> "undetermined"

\* C2: a valid transition sets current_state to the table's next_state and
\* returns it; status becomes waiting_reply for an awaiting_* state,
\* completed for completed, timed_out for timed_out or expired, and stays as
\* it was for notified, acknowledged and processing.
C2_ValidTransitionSetsStateAndStatus ==
    (CalledTransition
        /\ HasEntry(CallBefore.context_type, CallBefore.current_state, CallEvent))
    => LET next_state ==
               FLOW_DEFINITIONS[CallBefore.context_type][CallBefore.current_state][CallEvent]
       IN  /\ last.ret = next_state
           /\ convs[1].current_state = next_state
           /\ convs[1].status = ClaimedStatus(next_state, CallBefore.status)
           /\ CallAfter.current_state = next_state
           /\ CallAfter.status = convs[1].status

C2_Witness ==
    /\ CalledTransition
    /\ CallBefore.context_type = "accountant_digest"
    /\ CallBefore.current_state = "awaiting_action"
    /\ CallBefore.status = "waiting_reply"
    /\ CallEvent = "on_timeout"
    /\ last.ret = "expired"
    /\ convs[1].status = "timed_out"

\* C3: every stored conversation's current_state is a state the flow named
\* by its context_type defines.
C3_StateDefinedInFlow ==
    \A i \in DOMAIN convs :
        /\ convs[i].context_type \in DOMAIN FLOW_DEFINITIONS
        /\ convs[i].current_state \in DOMAIN FLOW_DEFINITIONS[convs[i].context_type]

C3_Witness ==
    \E i, j \in DOMAIN convs :
        /\ convs[i].current_state = "expired"
        /\ convs[j].current_state = "acknowledged"

\* The (current_state, status) pairs of the stored conversations.
StatePairs == [i \in DOMAIN convs |-> <<convs[i].current_state, convs[i].status>>]

\* C4: status is a function of current_state: any two stored conversations
\* with the same context_type and the same current_state have the same
\* status.
C4_StatusIsFunctionOfState ==
    \A i, j \in DOMAIN convs :
        (convs[i].context_type = convs[j].context_type
            /\ convs[i].current_state = convs[j].current_state)
        => convs[i].status = convs[j].status

\* Slots p and q hold two finished requests of the given kinds that were in
\* flight at the same time and both worked on conversation cv.
RanConcurrently(p, kp, q, kq, cv) ==
    /\ procs[p].kind = kp /\ procs[q].kind = kq
    /\ procs[p].pc = "done" /\ procs[q].pc = "done"
    /\ procs[p].overlap /\ procs[q].overlap
    /\ cv \in DOMAIN procs[p].rets
    /\ cv \in DOMAIN procs[q].rets

\* C5: of two on_reply events processed concurrently for a conversation that
\* accepts on_reply, exactly one transition call returns a new state and the
\* other returns None.
C5_ConcurrentRepliesOneAccepted ==
    \A p, q \in Slots : \A cv \in DOMAIN convs :
        (/\ p < q
         /\ RanConcurrently(p, "inbound", q, "inbound", cv)
         /\ HasEntry(convs[cv].context_type, procs[p].olds[cv], "on_reply"))
        => Cardinality({r \in {p, q} : procs[r].rets[cv] # None}) = 1

\* C6: after the timeout sweep and an inbound reply ran concurrently on a
\* conversation both loaded in an awaiting_* state, the stored pair
\* (current_state, status) is (processing, waiting_reply) or
\* (timed_out, timed_out) or (expired, timed_out), never a mixed pair.
C6_SweepAndReplyLeaveSequentialPair ==
    \A p, q \in Slots : \A cv \in DOMAIN convs :
        (/\ RanConcurrently(p, "inbound", q, "sweep", cv)
         /\ procs[p].olds[cv] \in AwaitingStates
         /\ procs[q].olds[cv] \in AwaitingStates)
        => StatePairs[cv] \in {<<"processing", "waiting_reply">>,
                               <<"timed_out", "timed_out">>,
                               <<"expired", "timed_out">>}

C6_Witness ==
    \E p, q \in Slots : \E cv \in DOMAIN convs :
        /\ RanConcurrently(p, "inbound", q, "sweep", cv)
        /\ procs[p].olds[cv] = "awaiting_action"
        /\ procs[q].olds[cv] = "awaiting_action"
        /\ procs[p].rets[cv] = "processing"
        /\ procs[q].rets[cv] = "expired"
        /\ StatePairs[cv] = <<"expired", "timed_out">>

\* C7: delivering the same inbound reply a second time, right after the
\* first delivery, leaves every conversation's current_state and status as
\* the first delivery left them.
C7_RetriedReplyKeepsState ==
    [][ (last.op = "inbound" /\ last'.op = "inbound" /\ last'.arg = last.arg)
            => StatePairs' = StatePairs ]_vars

C7_Witness ==
    /\ last.op = "inbound"
    /\ last.detail = "routed"
    /\ last.ret = None
    /\ \E i, j \in DOMAIN msgs :
          /\ i < j
          /\ j = Len(msgs)
          /\ msgs[i].direction = "inbound" /\ msgs[j].direction = "inbound"
          /\ msgs[i].channel_message_id = msgs[j].channel_message_id
          /\ msgs[i].conversation = last.conv /\ msgs[j].conversation = last.conv
    /\ convs[last.conv].current_state = "processing"

\* C8: no two stored messages have the same non-empty channel_message_id.
C8_ChannelMessageIdUnique ==
    \A i, j \in DOMAIN msgs :
        (i # j /\ msgs[i].channel_message_id # 0)
        => msgs[i].channel_message_id # msgs[j].channel_message_id

\* C9: every send handed to a channel adapter follows, in the same request
\* or task, a rate-limiter check for the recipient that returned allowed.
C9_EverySendRateChecked == \A a \in adapterCalls : a.checked

\* C10: a send or start_conversation request for a contact the rate limiter
\* denies answers 429 naming the window and changes nothing: no Message, no
\* Conversation, no adapter call, both counters as they were.
C10_DeniedRequestHasNoEffect ==
    [][ (/\ last'.op \in {"send", "start"}
         /\ last'.arg[1] \in ContactIds
         /\ ~RateLimiterCheck(cache, last'.arg[1]).allowed)
            => /\ last'.code = 429
               /\ last'.detail \in {"hourly", "daily"}
               /\ last'.detail = RateLimiterCheck(cache, last'.arg[1]).reason
               /\ msgs' = msgs
               /\ convs' = convs
               /\ cache' = cache
               /\ adapterCalls' = {} ]_vars

C10_Witness ==
    /\ last.op = "send"
    /\ last.code = 429
    /\ last.detail = "daily"
    /\ cache[1].daily = MAX_MESSAGES_PER_DAY
    /\ cache[1].hourly < MAX_MESSAGES_PER_HOUR
    /\ Len(msgs) = MAX_MESSAGES_PER_DAY

\* The hourly window denies as well.
C10_HourlyDenied ==
    /\ last.op = "start"
    /\ last.code = 429
    /\ last.detail = "hourly"
    /\ cache[1].hourly = MAX_MESSAGES_PER_HOUR

\* Contact c has no address for its preferred channel.
NoAddress(c) ==
    IF contacts[c].preferred_channel = "telegram"
    THEN contacts[c].telegram_chat_id = 0
    ELSE contacts[c].phone_e164 = <<>>

\* C11: a send or start_conversation request for a contact without an
\* address for its preferred channel answers with the configuration error,
\* whatever the contact's counters are, creates no Message and no
\* Conversation and calls no adapter.
C11_NoAddressIsConfigurationError ==
    [][ (/\ last'.op \in {"send", "start"}
         /\ last'.detail # "invalid"
         /\ last'.arg[1] \in ContactIds
         /\ NoAddress(last'.arg[1]))
            => /\ last'.code = 400
               /\ last'.detail = "no address"
               /\ msgs' = msgs
               /\ convs' = convs
               /\ adapterCalls' = {} ]_vars

\* The last operation was a dispatch of the given kinds whose adapter call
\* produced the given result.
Dispatched(ops, results) ==
    /\ last.op \in ops
    /\ \E a \in adapterCalls : a.result \in results

\* C12: a start_conversation request whose adapter send succeeded leaves its
\* conversation in the flow's on_send successor of initial, with status
\* waiting_reply when that is an awaiting_* state and active otherwise, and
\* its Message sent with the provider message id and sent_at set.
C12_SuccessfulStartAdvances ==
    Dispatched({"start"}, {"ok"})
    => LET conversation == convs[last.conv]
           message == msgs[Len(msgs)]
           successor == FLOW_DEFINITIONS[conversation.context_type]["initial"]["on_send"]
       IN  /\ conversation.current_state = successor
           /\ conversation.status =
                  IF successor \in AwaitingStates THEN "waiting_reply" ELSE "active"
           /\ message.conversation = last.conv
           /\ message.status = "sent"
           /\ message.channel_message_id # 0
           /\ message.sent_at # NullTime

\* C13: when the adapter reports an error or the send raises, the request
\* ends with its Message failed and carrying the error, and a
\* conversation-starting request with its Conversation in status failed
\* and current_state still initial; no stored Message of a completed
\* dispatch is left queued.
C13_FailedSendLeavesFailureRecord ==
    /\ Dispatched({"send", "start", "send_async"}, {"error", "raise"})
        => /\ msgs[Len(msgs)].status = "failed"
           /\ msgs[Len(msgs)].error
           /\ last.op = "start"
                => /\ msgs[Len(msgs)].conversation = last.conv
                   /\ convs[last.conv].status = "failed"
                   /\ convs[last.conv].current_state = "initial"
    /\ \A i \in DOMAIN msgs : msgs[i].status # "queued"

C13_Witness ==
    /\ Dispatched({"start"}, {"raise"})
    /\ msgs[Len(msgs)].status = "failed"
    /\ convs[last.conv].status = "failed"
    /\ \E i \in DOMAIN msgs : msgs[i].direction = "outbound" /\ msgs[i].status = "sent"

\* C14: a dispatch that is denied, fails with a configuration error or
\* whose adapter call fails or raises leaves the counters as they were; a
\* successful dispatch adds exactly one to the hourly and to the daily
\* counter of its contact.
C14_RecordOnlyAfterSuccessfulSend ==
    [][ (last'.op \in {"send", "start", "send_async"} /\ last'.arg[1] \in ContactIds)
            => IF last'.code \in {200, 201}
               THEN cache' = RateLimiterRecord(cache, last'.arg[1])
               ELSE (adapterCalls' = {} \/ \E a \in adapterCalls' : a.result # "ok")
                        => cache' = cache ]_vars

\* The same for the two dispatch views alone.
C14_ViewsRecordOnlyAfterSuccessfulSend ==
    [][ (last'.op \in {"send", "start"} /\ last'.arg[1] \in ContactIds)
            => IF last'.code \in {200, 201}
               THEN cache' = RateLimiterRecord(cache, last'.arg[1])
               ELSE (adapterCalls' = {} \/ \E a \in adapterCalls' : a.result # "ok")
                        => cache' = cache ]_vars

\* No record call is in flight.
Quiet == \A p \in Slots : procs[p].kind # "record"

\* No record call ever ran beside another one.
NeverOverlapped == \A p \in Slots : ~procs[p].overlap

\* C15: starting from no counters, once exactly MAX_MESSAGES_PER_HOUR
\* record calls have returned within the hourly window, a check of the
\* contact answers (not allowed, hourly); and once the hourly entry's life
\* has run out with no further record, a check answers allowed again while
\* the daily counter is below its quota.
C15_TenRecordsDenyUntilExpiry ==
    /\ (/\ RecordsCompleted = MAX_MESSAGES_PER_HOUR /\ Quiet /\ now < HOUR_TTL)
            => RateLimiterCheck(cache, 1) = [allowed |-> FALSE, reason |-> "hourly"]
    /\ (/\ Quiet /\ cache[1].hourly_ttl = 0
        /\ DailyCount(cache, 1) < MAX_MESSAGES_PER_DAY)
            => RateLimiterCheck(cache, 1).allowed

\* The same for record calls that returned one after the other.
C15_TenSequentialRecordsDenyUntilExpiry ==
    NeverOverlapped => C15_TenRecordsDenyUntilExpiry

\* Ten sequential records, the denial, and the hourly entry gone an hour
\* after the last of them.
C15_DeniedAfterTen ==
    /\ NeverOverlapped /\ Quiet /\ RecordsCompleted = MAX_MESSAGES_PER_HOUR
    /\ last.op = "check" /\ last.detail = "hourly" /\ last.ret = "denied"

C15_AllowedAfterExpiry ==
    /\ NeverOverlapped /\ Quiet /\ RecordsCompleted = MAX_MESSAGES_PER_HOUR
    /\ cache[1].hourly_ttl = 0 /\ cache[1].daily = MAX_MESSAGES_PER_HOUR
    /\ last.op = "check" /\ last.detail = "" /\ last.ret = "allowed"

\* C16: for all counter values check(id) answers not allowed exactly when
\* the hourly counter is >= 10 or the daily counter is >= 30, and allowed
\* with an empty reason otherwise; the reason is the hourly quota whenever
\* the hourly counter is at or over quota, and the daily quota only when the
\* hourly counter is below quota; check leaves every counter as it was, and
\* the counters of other contacts have no part in the answer.
C16_CheckIsFunctionOfOwnCounters ==
    [][ last'.op = "check" =>
            LET c == last'.arg[1]
                hourly_over == HourlyCount(cache, c) >= MAX_MESSAGES_PER_HOUR
                daily_over == DailyCount(cache, c) >= MAX_MESSAGES_PER_DAY
            IN  /\ last'.ret = IF hourly_over \/ daily_over THEN "denied" ELSE "allowed"
                /\ last'.detail = IF hourly_over THEN "hourly"
                                  ELSE IF daily_over THEN "daily" ELSE ""
                /\ cache' = cache ]_vars

\* Both quotas of the asked contact used up, the other contact's too, and
\* the answer names the hourly quota.
C16_Witness ==
    /\ last.op = "check" /\ last.arg = <<1>>
    /\ HourlyCount(cache, 1) >= MAX_MESSAGES_PER_HOUR
    /\ DailyCount(cache, 1) >= MAX_MESSAGES_PER_DAY
    /\ HourlyCount(cache, 2) = 0
    /\ last.detail = "hourly" /\ last.ret = "denied"

\* The contact an inbound event comes from (0 when none matches).
SenderOf(arg) ==
    IF arg[1] = "whatsapp" THEN ContactByPhone(NormalizePhone(arg[2]))
    ELSE ContactByChatId(arg[2][1])

\* The whole trimmed body is an opt-out keyword of the channel, in any case.
WholeBodyIsKeyword(channel, body) ==
    \/ Upper(Strip(body)) \in WhatsAppOptOutKeywords
    \/ channel # "whatsapp" /\ Upper(Strip(body)) = <<"/", "S", "T", "O", "P">>

\* An opt-out event: the contact inactive, one contact.opted_out
\* notification, and nothing else touched.
OptOutStep(c) ==
    /\ contacts' = [contacts EXCEPT ![c].is_active = FALSE]
    /\ hub' = HubNotify(hub, <<"contact.opted_out", c>>)
    /\ msgs' = msgs
    /\ convs' = convs

\* C17: an inbound message whose whole trimmed body is an opt-out keyword
\* in any letter case (STOP, UNSUBSCRIBE, CANCEL, and /STOP on the
\* chat-based channel) sets the sending contact inactive, emits exactly one
\* contact.opted_out notification and does nothing else: no Message is
\* created and no conversation is transitioned; a body that only contains
\* a keyword is not an opt-out.
C17_OptOutShortCircuits ==
    [][ (last'.op = "inbound" /\ SenderOf(last'.arg) # UnknownContact) =>
            IF WholeBodyIsKeyword(last'.arg[1], last'.arg[4])
            THEN OptOutStep(SenderOf(last'.arg))
            ELSE contacts' = contacts
                 /\ hub' # HubNotify(hub, <<"contact.opted_out", SenderOf(last'.arg)>>) ]_vars

\* The same for the two text-message handlers, button presses left out.
C17_TextOptOutShortCircuits ==
    [][ (/\ last'.op = "inbound" /\ last'.arg[1] # "callback"
         /\ SenderOf(last'.arg) # UnknownContact) =>
            IF WholeBodyIsKeyword(last'.arg[1], last'.arg[4])
            THEN OptOutStep(SenderOf(last'.arg))
            ELSE contacts' = contacts
                 /\ hub' # HubNotify(hub, <<"contact.opted_out", SenderOf(last'.arg)>>) ]_vars

\* "Cancel" typed on the chat-based channel while a conversation waits:
\* the contact is opted out and the conversation is where it was.
C17_TextOptOut ==
    /\ last.op = "inbound" /\ last.detail = "opt_out"
    /\ last.arg[1] = "telegram" /\ last.arg[4] = CancelBody
    /\ ~contacts[2].is_active
    /\ \E i \in DOMAIN convs : convs[i].contact = 2 /\ convs[i].status = "waiting_reply"

\* C18: replaying a delivery receipt is idempotent on the Message: a
\* Message marked read stays read with read_at at its first recorded value
\* when the same receipt is delivered again, and delivered_at and read_at,
\* once written, are never written again nor cleared by a status webhook.
C18_TimestampsWrittenOnce ==
    [][ \A i \in DOMAIN msgs :
            /\ msgs[i].delivered_at # NullTime
                    => msgs'[i].delivered_at = msgs[i].delivered_at
            /\ msgs[i].read_at # NullTime => msgs'[i].read_at = msgs[i].read_at
            /\ (/\ msgs[i].status = "read" /\ msgs'[i] # msgs[i]
                /\ last'.detail = "read")
                    => msgs'[i].status = "read" ]_vars

\* The same for receipts handled one after the other.
C18_SequentialTimestampsWrittenOnce ==
    [][ NeverOverlapped' =>
          \A i \in DOMAIN msgs :
            /\ msgs[i].delivered_at # NullTime
                    => msgs'[i].delivered_at = msgs[i].delivered_at
            /\ msgs[i].read_at # NullTime => msgs'[i].read_at = msgs[i].read_at
            /\ (/\ msgs[i].status = "read" /\ msgs'[i] # msgs[i]
                /\ last'.detail = "read")
                    => msgs'[i].status = "read" ]_vars

\* The read receipt handled twice, the second time later than the first.
C18_ReadReplayed ==
    /\ NeverOverlapped
    /\ msgs # <<>> /\ msgs[1].status = "read" /\ msgs[1].read_at = 0 /\ now = 1
    /\ last.op = "status" /\ last.detail = "read"
    /\ <<"message.status_changed", 1>> \in DOMAIN hub
    /\ hub[<<"message.status_changed", 1>>] = 2

\* An inbound event from a known contact whose body is not an opt-out.
NonOptOutFromKnown(arg) ==
    /\ SenderOf(arg) # UnknownContact
    /\ ~WholeBodyIsKeyword(arg[1], arg[4])

\* A text of the chat-based channel that starts with the /start command.
OnboardingCommand(arg) == arg[1] = "telegram" /\ StartsWithStart(arg[4])

\* The conversations of contact c in status active or waiting_reply.
LiveOf(c) ==
    {i \in DOMAIN convs : convs[i].contact = c
                          /\ convs[i].status \in {"active", "waiting_reply"}}

\* One inbound Message with status received, attached to the most recently
\* created live conversation of c; on_reply driven on that conversation and
\* on no other; one client.replied for it.
RoutedToNewestLive(c, id) ==
    LET cv == CHOOSE i \in LiveOf(c) : \A j \in LiveOf(c) : j <= i
    IN  /\ msgs' = Append(msgs, NewMessage(cv, "inbound", id, "received"))
        /\ convs' = [convs EXCEPT ![cv] =
                        RowAfterTransition(@, transition(@, "on_reply"))]
        /\ hub' = HubNotify(hub, <<"client.replied", cv>>)
        /\ last'.conv = cv

\* C19 as stated: an inbound non-opt-out message from a known contact is
\* persisted as one inbound Message with status received and routed to
\* exactly one conversation, the most recently created one of that contact
\* in status active or waiting_reply; every other conversation is unchanged.
C19_InboundRoutedToNewestLive ==
    [][ (/\ last'.op = "inbound" /\ NonOptOutFromKnown(last'.arg)
         /\ LiveOf(SenderOf(last'.arg)) # {})
            => RoutedToNewestLive(SenderOf(last'.arg), last'.arg[3]) ]_vars

\* C19, amended: the same for every inbound non-opt-out message from a
\* known contact except a chat-channel text that starts with /start, which
\* is logged and not processed.
C19_InboundExceptStartRoutedToNewestLive ==
    [][ (/\ last'.op = "inbound" /\ NonOptOutFromKnown(last'.arg)
         /\ ~OnboardingCommand(last'.arg)
         /\ LiveOf(SenderOf(last'.arg)) # {})
            => RoutedToNewestLive(SenderOf(last'.arg), last'.arg[3]) ]_vars

\* A reply routed to the second of two live conversations of the contact,
\* the first one still where its start left it.
C19_Witness ==
    /\ last.op = "inbound" /\ last.detail = "routed" /\ last.conv = 2
    /\ convs[1].contact = convs[2].contact
    /\ convs[1].status = "waiting_reply" /\ convs[1].current_state = "awaiting_response"
    /\ convs[2].current_state \in {"processing", "acknowledged"}
    /\ msgs[Len(msgs)].direction = "inbound" /\ msgs[Len(msgs)].conversation = 2

\* The inbound Message stored with no owning conversation, nothing else.
StoredStandalone(id) ==
    /\ msgs' = Append(msgs, NewMessage(0, "inbound", id, "received"))
    /\ convs' = convs
    /\ hub' = hub
    /\ last'.code = 200

\* C20 as stated: when a known contact with no conversation in status
\* active or waiting_reply sends a non-opt-out message, the inbound Message
\* is persisted with no owning conversation, no conversation is
\* transitioned, no client.replied goes to Hub, and the webhook succeeds.
C20_NoLiveConversationStoresStandalone ==
    [][ (/\ last'.op = "inbound" /\ NonOptOutFromKnown(last'.arg)
         /\ LiveOf(SenderOf(last'.arg)) = {})
            => StoredStandalone(last'.arg[3]) ]_vars

\* C20, amended: the same except for a chat-channel text that starts with
\* /start, which is logged and not persisted.
C20_ExceptStartStoresStandalone ==
    [][ (/\ last'.op = "inbound" /\ NonOptOutFromKnown(last'.arg)
         /\ ~OnboardingCommand(last'.arg)
         /\ LiveOf(SenderOf(last'.arg)) = {})
            => StoredStandalone(last'.arg[3]) ]_vars

\* A button press of a contact whose only conversation failed at its start:
\* stored standalone, the conversation still failed in its initial state.
C20_Witness ==
    /\ last.op = "inbound" /\ last.detail = "standalone" /\ last.code = 200
    /\ last.arg[1] = "callback"
    /\ \E i \in DOMAIN convs :
            /\ convs[i].contact = SenderOf(last.arg)
            /\ convs[i].status = "failed" /\ convs[i].current_state = "initial"
    /\ msgs[Len(msgs)].direction = "inbound" /\ msgs[Len(msgs)].conversation = 0
    /\ HubCount("client.replied") = 0

\* This step stored an inbound Message attached to conversation i.
ReplyRoutedTo(i) ==
    /\ Len(msgs') = Len(msgs) + 1
    /\ msgs'[Len(msgs')].direction = "inbound"
    /\ msgs'[Len(msgs')].conversation = i

\* C21: in the reminder flow a reply routed to a conversation in notified
\* with status active moves it to acknowledged with status still active and
\* sends exactly one client.replied for that reply; acknowledged has no
\* outgoing transition, so no later step changes its current_state.
C21_ReminderReplyAcknowledged ==
    [][ \A i \in DOMAIN convs :
          convs[i].context_type = "reminder" =>
            /\ (/\ ReplyRoutedTo(i)
                /\ convs[i].current_state = "notified" /\ convs[i].status = "active")
                    => /\ convs'[i].current_state = "acknowledged"
                       /\ convs'[i].status = "active"
                       /\ hub' = HubNotify(hub, <<"client.replied", i>>)
            /\ convs[i].current_state = "acknowledged"
                    => convs'[i].current_state = "acknowledged" ]_vars

\* A reminder conversation acknowledged by a first reply, and a second
\* reply routed to it afterwards.
C21_Witness ==
    /\ convs # <<>> /\ convs[1].context_type = "reminder"
    /\ convs[1].current_state = "acknowledged" /\ convs[1].status = "active"
    /\ <<"client.replied", 1>> \in DOMAIN hub /\ hub[<<"client.replied", 1>>] = 2
    /\ last.op = "inbound" /\ last.conv = 1

\* How often Hub was sent `event_type` for conversation or message i.
SentToHub(h, event_type, i) ==
    IF <<event_type, i>> \in DOMAIN h THEN h[<<event_type, i>>] ELSE 0

\* Conversation i waits for a reply in the clarification flow and its
\* deadline has passed.
ClarificationOverdue(i) ==
    /\ convs[i].context_type = "clarification"
    /\ convs[i].current_state = "awaiting_response"
    /\ convs[i].status = "waiting_reply"
    /\ convs[i].last_activity_at + convs[i].timeout_minutes <= now

\* C22: a clarification conversation in awaiting_response / waiting_reply
\* whose last_activity + timeout_minutes has elapsed without a reply is moved
\* by the next sweep to current_state timed_out with status timed_out, and
\* over any number of sweep runs, one after another, Hub is sent
\* conversation.timed_out for it exactly once.
C22_OverdueClarificationTimesOutOnce ==
    [][ \A i \in DOMAIN convs :
          /\ (last'.op = "sweep" /\ ClarificationOverdue(i))
                => /\ convs'[i].current_state = "timed_out"
                   /\ convs'[i].status = "timed_out"
                   /\ SentToHub(hub', "conversation.timed_out", i) = 1
          /\ SentToHub(hub', "conversation.timed_out", i) <= 1
          /\ (convs[i].context_type = "clarification" /\ convs[i].status = "timed_out")
                => /\ convs'[i] = convs[i]
                   /\ SentToHub(hub', "conversation.timed_out", i) = 1 ]_vars

\* A clarification conversation timed out by one sweep, and a later sweep
\* that found nothing to do.
C22_Witness ==
    /\ convs # <<>> /\ convs[1].context_type = "clarification"
    /\ convs[1].current_state = "timed_out" /\ convs[1].status = "timed_out"
    /\ SentToHub(hub, "conversation.timed_out", 1) = 1
    /\ last.op = "sweep" /\ last.code = 0

\* The conversations a sweep starting now has to look at, and those of
\* them whose flow has an on_timeout entry for their state.
DueNow ==
    {i \in DOMAIN convs :
        /\ convs[i].status = "waiting_reply"
        /\ convs[i].last_activity_at + convs[i].timeout_minutes <= now}

DueAndAccepted ==
    {i \in DueNow : HasEntry(convs[i].context_type, convs[i].current_state, "on_timeout")}

\* C23: a sweep run drives on_timeout on exactly the conversations in
\* status waiting_reply whose last_activity + timeout_minutes has elapsed,
\* leaves every other conversation unchanged, sends conversation.timed_out
\* only for the conversations whose transition was accepted, and returns
\* the number of accepted transitions.
C23_SweepTouchesExactlyTheOverdue ==
    [][ last'.op = "sweep" =>
          /\ \A i \in DOMAIN convs :
                /\ i \notin DueAndAccepted => convs'[i] = convs[i]
                /\ i \in DueAndAccepted =>
                      convs'[i].current_state =
                          FLOW_DEFINITIONS[convs[i].context_type]
                                          [convs[i].current_state]["on_timeout"]
                /\ SentToHub(hub', "conversation.timed_out", i) =
                      SentToHub(hub, "conversation.timed_out", i)
                          + (IF i \in DueAndAccepted THEN 1 ELSE 0)
          /\ HubTotal' = HubTotal + Cardinality(DueAndAccepted)
          /\ last'.code = Cardinality(DueAndAccepted)
          /\ DOMAIN convs' = DOMAIN convs /\ msgs' = msgs ]_vars

\* One run that timed out the newer conversation and left the older one,
\* overdue as well but already replied to, where it was.
C23_Witness ==
    /\ last.op = "sweep" /\ last.code = 1
    /\ Len(convs) = 2
    /\ convs[1].current_state = "processing" /\ convs[1].status = "waiting_reply"
    /\ convs[1].last_activity_at + convs[1].timeout_minutes <= now
    /\ convs[2].status = "timed_out"
    /\ HubCount("conversation.timed_out") = 1

TerminalStatuses == {"timed_out", "completed", "failed"}

\* C24: conversations are terminated, never revived: once the status of a
\* conversation is timed_out, completed or failed, no later operation and
\* no interleaving of operations, a request that loaded the conversation
\* before it became terminal included, changes its status or current_state.
C24_TerminalConversationsStayTerminal ==
    [][ \A i \in DOMAIN convs :
            convs[i].status \in TerminalStatuses =>
                /\ convs'[i].status = convs[i].status
                /\ convs'[i].current_state = convs[i].current_state ]_vars

\* Nothing stored is changed, Hub hears nothing, no adapter is called, and
\* the webhook answers 200.
DroppedStep ==
    /\ msgs' = msgs /\ convs' = convs /\ contacts' = contacts
    /\ hub' = hub
    /\ adapterCalls' = {}
    /\ last'.code = 200

\* C25: an inbound event whose sender address matches no Contact is
\* dropped: no Message is created, no conversation is transitioned, no
\* Contact is changed, Hub is not notified, no outbound send is triggered,
\* and the webhook is answered as a success.
C25_UnknownSenderDropped ==
    [][ (last'.op = "inbound" /\ SenderOf(last'.arg) = UnknownContact)
            => DroppedStep ]_vars

\* The same for the two text-message handlers, button presses left out.
C25_UnknownTextSenderDropped ==
    [][ (/\ last'.op = "inbound" /\ last'.arg[1] # "callback"
         /\ SenderOf(last'.arg) = UnknownContact)
            => DroppedStep ]_vars

\* A WhatsApp message from a number no contact has, dropped while a
\* conversation of a known contact exists.
C25_UnknownTextDropped ==
    /\ last.op = "inbound" /\ last.arg[1] = "whatsapp"
    /\ SenderOf(last.arg) = UnknownContact
    /\ last.code = 200 /\ last.detail = "unknown contact"
    /\ convs # <<>> /\ \A i \in DOMAIN msgs : msgs[i].direction = "outbound"

\* The stored Messages a receipt with this id is about.
KnownMessages(cmid) ==
    IF cmid = 0 THEN {} ELSE {i \in DOMAIN msgs : msgs[i].channel_message_id = cmid}

\* What a status webhook has to do, given the Messages its id matches.
StatusWebhookStep(cmid, new_status, known) ==
    IF known = {} \/ new_status \notin {"sent", "delivered", "read", "failed"}
    THEN msgs' = msgs /\ hub' = hub /\ convs' = convs
    ELSE \E i \in known :
            /\ msgs'[i].status = new_status
            /\ hub' = HubNotify(hub, <<"message.status_changed", i>>)

\* C26: a status webhook whose channel_message_id matches no stored
\* Message changes nothing and notifies nobody; one for a known Message with
\* a provider status of the mapping table sets the Message status to the
\* mapped value and sends one message.status_changed on every delivery,
\* duplicates included; a provider status outside the table changes nothing
\* and sends no notification.
C26_StatusWebhookSetsAndNotifies ==
    [][ last'.op = "status" =>
            StatusWebhookStep(last'.arg[1], last'.arg[2], KnownMessages(last'.arg[1])) ]_vars

\* The same when at most one stored Message carries the id.
C26_UniqueIdStatusWebhookSetsAndNotifies ==
    [][ (last'.op = "status" /\ Cardinality(KnownMessages(last'.arg[1])) <= 1) =>
            StatusWebhookStep(last'.arg[1], last'.arg[2], KnownMessages(last'.arg[1])) ]_vars

\* The delivered receipt of the first Message handled twice: two
\* notifications for it.
C26_DuplicateNotified ==
    /\ last.op = "status" /\ last.arg = <<ProviderMessageId(1), "delivered">>
    /\ Len(msgs) >= 1 /\ msgs[1].status = "delivered"
    /\ SentToHub(hub, "message.status_changed", 1) = 2

\* Calls of notify made by the step.
NotifyCalls == SumOver(hub', DOMAIN hub') - HubTotal

\* What the notifying handlers persist, stated without the endpoint.
PersistedAsWithoutHub ==
    /\ last'.op = "sweep" =>
            /\ last'.code = Cardinality(DueAndAccepted)
            /\ \A i \in DOMAIN convs :
                    convs'[i] = IF i \in DueAndAccepted
                                THEN RowAfterTransition(convs[i], transition(convs[i], "on_timeout"))
                                ELSE convs[i]
            /\ msgs' = msgs /\ contacts' = contacts
    /\ (last'.op = "inbound" /\ last'.detail = "opt_out") =>
            /\ contacts' = [contacts EXCEPT ![SenderOf(last'.arg)].is_active = FALSE]
            /\ msgs' = msgs /\ convs' = convs /\ last'.code = 200
    /\ (last'.op = "inbound" /\ last'.detail = "routed") =>
            /\ ReplyRoutedTo(last'.conv)
            /\ convs' = [convs EXCEPT ![last'.conv] =
                            RowAfterTransition(@, transition(@, "on_reply"))]
            /\ contacts' = contacts /\ last'.code = 200
    /\ (last'.op = "status" /\ NotifyCalls > 0) =>
            /\ \E m \in DOMAIN msgs : msgs'[m].status = last'.arg[2]
            /\ convs' = convs /\ contacts' = contacts /\ last'.code = 200

\* C27: Hub notification is best-effort and isolated from the caller:
\* notify makes exactly one attempt per triggering event, never raises
\* (network failure, timeout and non-2xx all yield a false result), is never
\* retried, and what the triggering operation persists (conversation state
\* and status, Message records, contact active flag, sweep count) is the
\* same whether the notification succeeds or fails.
C27_OneAttemptPerEventIsolated ==
    [][ /\ procs'.posts = procs.posts + NotifyCalls
        /\ (NotifyCalls > 0 /\ procs.response # "2xx") => procs'.returned = FALSE
        /\ PersistedAsWithoutHub ]_vars

\* C27 with the unconfigured endpoint told apart: one attempt per
\* triggering event when HUB_WEBHOOK_URL is set, none (and a false result)
\* when it is not.
C27_OneAttemptWhenConfiguredIsolated ==
    [][ /\ procs'.posts = procs.posts + (IF procs.webhook_url = "" THEN 0 ELSE NotifyCalls)
        /\ (NotifyCalls > 0 /\ (procs.response # "2xx" \/ procs.webhook_url = ""))
                => procs'.returned = FALSE
        /\ PersistedAsWithoutHub ]_vars

\* A sweep has timed a conversation out and counted it while the endpoint
\* was hanging: one POST, a false result.
C27_Witness ==
    /\ last.op = "sweep" /\ last.code = 1
    /\ procs.webhook_url = "url" /\ procs.response = "timeout"
    /\ procs.posts = 1 /\ procs.returned = FALSE
    /\ Len(convs) >= 1 /\ convs[1].status = "timed_out"
    /\ SentToHub(hub, "conversation.timed_out", 1) = 1

\* The provider call of the step cannot succeed: no credentials, or the API
\* refuses, hangs or is unreachable.
ProviderFails == ~procs.configured \/ procs.response # "2xx"

\* C28: every adapter send call returns a result value and never raises to
\* the dispatcher: a network error, a timeout, a non-2xx provider response
\* or missing credentials each produce a failed result carrying an error
\* string and no provider message id, which the dispatcher records as a
\* failed Message instead of leaving the request unanswered.
C28_AdapterFailuresBecomeFailedMessages ==
    [][ \A call \in adapterCalls' :
          LET result == AdapterResult(call.channel, procs.configured, procs.response)
              message == msgs'[Len(msgs')]
          IN  /\ call.result # "raise" /\ ~result.raised
              /\ ProviderFails =>
                    /\ result.error # "" /\ ~result.has_id /\ call.result = "error"
                    /\ Len(msgs') = Len(msgs) + 1
                    /\ message.status = "failed" /\ message.error
                    /\ message.channel_message_id = 0
                    /\ last'.code = 500 ]_vars

\* A send on the phone channel while the provider API was hanging: a failed
\* Message and an answer to the request.
C28_Witness ==
    /\ last.op = "send" /\ last.code = 500 /\ last.arg = <<1>>
    /\ procs.configured /\ procs.response = "timeout"
    /\ adapterCalls = {AdapterSend("send", "whatsapp", TRUE, "error")}
    /\ msgs # <<>> /\ msgs[Len(msgs)].status = "failed"

\* The payload buttons keep the provider limits and the input order.
WithinButtonLimits(call) ==
    /\ Len(call.buttons) <= 3
    /\ Len(call.buttons) <= Len(last.arg)
    /\ \A i \in DOMAIN call.buttons :
          /\ Len(call.buttons[i].title) <= 20
          /\ call.buttons[i].title = Take(last.arg[i].title, Len(call.buttons[i].title))

\* C29: for every send_interactive call on either channel adapter with any
\* button sequence, the payload handed to the provider contains at most 3
\* buttons, each with a title of at most 20 characters, and the buttons
\* appear in the same relative order as in the input.
C29_InteractivePayloadWithinLimits ==
    \A call \in adapterCalls : WithinButtonLimits(call)

\* The same for the payloads of start requests, whose buttons have passed
\* validate_buttons.
C29_ValidatedPayloadWithinLimits ==
    \A call \in adapterCalls : call.path = "start" => WithinButtonLimits(call)

\* A start request with three buttons of twenty characters went out on the
\* chat channel as it came in.
C29_ThreeFullButtonsSent ==
    /\ last.op = "start" /\ last.code = 200 /\ Len(last.arg) = 3
    /\ \A i \in 1..3 : Len(last.arg[i].title) = 20
    /\ adapterCalls = {[path |-> "start", channel |-> "telegram",
                         buttons |-> TelegramKeyboard(last.arg)]}

\* A webhook POST has been handled by the step.
PostHandled == last'.op \in {"inbound", "webhook"}

\* The secret of the request's channel is configured and the credential of
\* the request is not the one the secret calls for.
CredentialMismatch ==
    \/ /\ procs.request.channel = "whatsapp" /\ procs.app_secret # ""
       /\ procs.request.header # Sign(procs.app_secret, procs.request.body)
    \/ /\ procs.request.channel = "telegram" /\ procs.telegram_secret # ""
       /\ procs.request.header.key # procs.telegram_secret

SecretUnset ==
    \/ procs.request.channel = "whatsapp" /\ procs.app_secret = ""
    \/ procs.request.channel = "telegram" /\ procs.telegram_secret = ""

NothingProcessed ==
    /\ msgs' = msgs /\ convs' = convs /\ contacts' = contacts
    /\ hub' = hub /\ procs'.posts = procs.posts

\* C30: when a webhook secret is configured, an inbound webhook POST whose
\* credential does not match is rejected with 403 before any processing
\* (no Message, Conversation or Contact is changed and no Hub notification
\* is sent); when no secret is configured the check is skipped and the
\* event is processed.
C30_MismatchRejectedWith403 ==
    [][ PostHandled =>
          /\ CredentialMismatch => (last'.code = 403 /\ NothingProcessed)
          /\ SecretUnset => (last'.op = "inbound" /\ last'.code = 200) ]_vars

\* The same for credentials that are plain ASCII; any mismatch leaves the
\* data as it was.
C30_AsciiMismatchRejectedWith403 ==
    [][ PostHandled =>
          /\ (CredentialMismatch /\ procs.request.header.ascii)
                => (last'.code = 403 /\ NothingProcessed)
          /\ CredentialMismatch => (last'.code \in {403, 500} /\ NothingProcessed)
          /\ SecretUnset => (last'.op = "inbound" /\ last'.code = 200) ]_vars

\* A request signed for another body has been turned away with data in
\* store.
C30_ForeignSignatureRejected ==
    /\ last.op = "webhook" /\ last.code = 403 /\ last.arg = <<"whatsapp">>
    /\ procs.app_secret = "s" /\ procs.request.header = Sign("s", <<"x">>)
    /\ msgs # <<>>

\* A conversation of the flow in the state, for asking transition about it.
ConversationAt(ct, st) == [NewConversation(1, ct, 1, 0) EXCEPT !.current_state = st]

\* The states one accepted transition leads to from a state of S.
Successors(ct, S) ==
    UNION {{transition(ConversationAt(ct, st), e).ret : e \in AllEvents} \ {None} : st \in S}

RECURSIVE Closure(_, _)
Closure(ct, S) ==
    LET more == S \cup Successors(ct, S)
    IN  IF more = S THEN S ELSE Closure(ct, more)

\* The states reachable by one or more accepted transitions.
ReachableFrom(ct, st) == Closure(ct, Successors(ct, {st}))

OnCycle(ct, st) == st \in ReachableFrom(ct, st)

\* Some state without outgoing transitions can be reached (or is) st.
CanEnd(ct, st) ==
    \E t \in ReachableFrom(ct, st) \cup {st} : Successors(ct, {t}) = {}

\* C31: every flow's transition graph is acyclic: no state is reachable from
\* itself by one or more valid transitions, so every sequence of accepted
\* transitions on a conversation is finite.
C31_FlowsAcyclic ==
    \A i \in DOMAIN convs : ~OnCycle(convs[i].context_type, convs[i].current_state)

\* C31 with the follow-up loop told apart: the only states on a cycle are
\* the awaiting state and processing of the clarification and the
\* weekly_batch flow (on_reply forth, on_followup back); the other four
\* flows are acyclic, and from every state a state without outgoing
\* transitions can be reached.
C31_OnlyFollowupLoops ==
    \A i \in DOMAIN convs :
        LET ct == convs[i].context_type
            st == convs[i].current_state
        IN  /\ OnCycle(ct, st) =>
                  \/ ct = "clarification" /\ st \in {"awaiting_response", "processing"}
                  \/ ct = "weekly_batch" /\ st \in {"awaiting_responses", "processing"}
            /\ CanEnd(ct, st)
            /\ (CalledTransition /\ last.ret # None /\ OnCycle(ct, CallBefore.current_state)
                    /\ OnCycle(ct, st))
                  => CallEvent \in {"on_reply", "on_followup"}

\* A clarification conversation is back in awaiting_response by on_followup.
C31_Witness ==
    /\ CalledTransition /\ CallEvent = "on_followup" /\ last.ret = "awaiting_response"
    /\ CallBefore.current_state = "processing"
    /\ convs[1].context_type = "clarification"
    /\ convs[1].current_state = "awaiting_response"
    /\ OnCycle("clarification", "awaiting_response")

\* The events transition accepts for the conversation.
AcceptedEvents(conversation) ==
    {e \in AllEvents : transition(conversation, e).ret # None}

\* The states the claim names as terminal.
NamedTerminal(conversation) ==
    \/ conversation.current_state \in {"timed_out", "expired", "completed", "acknowledged"}
    \/ conversation.context_type = "monthly_call_defer" /\ conversation.current_state = "notified"

UnknownFlowOrState(conversation) ==
    \/ conversation.context_type \notin DOMAIN FLOW_DEFINITIONS
    \/ conversation.current_state \notin DOMAIN FLOW_DEFINITIONS[conversation.context_type]

\* C32: get_available_events(conversation) returns exactly the events for
\* which transition would be accepted in the conversation's current
\* (context_type, current_state); it is empty for the terminal states and
\* for an unknown flow or state, and it does not modify the conversation.
C32_AvailableEventsAreTheAccepted ==
    [][ last'.op = "events" =>
          /\ last'.arg[2] = AcceptedEvents(convs[1])
          /\ (NamedTerminal(convs[1]) \/ UnknownFlowOrState(convs[1])) => last'.arg[2] = {}
          /\ convs' = convs /\ last'.arg[1] = convs[1] ]_vars

\* Asked in awaiting_response after a send: on_reply and on_timeout.
C32_Witness ==
    /\ last.op = "events"
    /\ last.arg[2] = {"on_reply", "on_timeout"}
    /\ convs[1].context_type = "clarification"
    /\ convs[1].current_state = "awaiting_response"

\* The step has moved conversation i to another state.
Transitioned(i) ==
    /\ i \in DOMAIN convs
    /\ convs'[i].current_state # convs[i].current_state

\* C33: every accepted transition refreshes the conversation's
\* last-activity timestamp in the same write as current_state and status, so
\* that the sweep's deadline is measured from the most recent accepted
\* transition and not from the creation.
C33_TransitionRefreshesLastActivity ==
    [][ \A i \in DOMAIN convs' :
            Transitioned(i) => convs'[i].last_activity_at = now ]_vars

\* A conversation created earlier has been moved on by a reply.
C33_RepliedLater ==
    /\ last.op = "inbound" /\ last.detail = "routed" /\ last.conv = 1
    /\ convs[1].current_state = "processing"
    /\ now = 1

\* The step is the hourly (the daily) cache.set of a record call.
HourlySetBy(p) == procs[p].pc = "got_hourly" /\ procs'[p].pc = "set_hourly"
DailySetBy(p) == procs[p].pc = "got_daily" /\ procs'[p].pc = "idle"
HourlySet == \E p \in Slots : HourlySetBy(p)
DailySet == \E p \in Slots : DailySetBy(p)

\* The life of an entry after a record: a full one for a new entry, the
\* rest of the old one for an entry that exists.
LifeKept(ttl, full) == IF ttl = 0 THEN full ELSE ttl

\* C34: record(id) increments the hourly and the daily counter of the
\* contact by one each, creating an absent counter at 1 with its TTL; the
\* TTL is attached when the counter is created, so a record on an existing
\* counter does not postpone its expiry.
C34_RecordKeepsExpiry ==
    [][ (\A p \in Slots : ~procs'[p].overlap) =>
          /\ HourlySet => cache'[1].hourly_ttl = LifeKept(cache[1].hourly_ttl, HOUR_TTL)
          /\ DailySet => cache'[1].daily_ttl = LifeKept(cache[1].daily_ttl, DAY_TTL) ]_vars

\* What record does with the counters when no other record runs beside
\* it: one more than the live entry, and a full life from now.
C34_RecordIncrementsAndRestartsExpiry ==
    [][ (\A p \in Slots : ~procs'[p].overlap) =>
          /\ HourlySet =>
                /\ cache'[1].hourly_ttl = HOUR_TTL
                /\ \E p \in Slots :
                      HourlySetBy(p) /\ cache'[1].hourly = procs[p].loaded["count"] + 1
          /\ DailySet =>
                /\ cache'[1].daily_ttl = DAY_TTL
                /\ \E p \in Slots :
                      DailySetBy(p) /\ cache'[1].daily = procs[p].loaded["count"] + 1 ]_vars

\* Two records one after the other, half an hour apart: the hourly entry
\* has a full hour to live again.
C34_ExpiryPostponed ==
    /\ NeverOverlapped /\ Quiet /\ RecordsCompleted = 2 /\ now = 1
    /\ cache[1].hourly = 2 /\ cache[1].hourly_ttl = HOUR_TTL

\* Every completed record call is in both counters; no time has passed, so
\* nothing has expired.
AllRecordsCounted ==
    (Quiet /\ now = 0) =>
        /\ cache[1].hourly = RecordsCompleted
        /\ cache[1].daily = RecordsCompleted

\* C35: under any interleaving of concurrent record calls for the same
\* contact no increment is lost: after k record calls have completed within
\* a window with no expiry in between, the hourly and the daily counter
\* have each grown by exactly k.
C35_NoIncrementLost == AllRecordsCounted

\* The same for record calls none of which ran beside another.
C35_NoIncrementLostInSequence == NeverOverlapped => AllRecordsCounted

\* Two overlapping record calls have returned.
C35_TwoOverlappingRecordsReturned ==
    /\ Quiet /\ now = 0 /\ RecordsCompleted = 2
    /\ \A p \in Slots : procs[p].overlap

\* The delivery order queued < sent < delivered < read.
DeliveryOrder == <<"queued", "sent", "delivered", "read">>

Before(a, b) ==
    \E i, j \in DOMAIN DeliveryOrder :
        DeliveryOrder[i] = a /\ DeliveryOrder[j] = b /\ i < j

\* C36: a Message's delivery status never moves backward in the order
\* queued < sent < delivered < read under any sequence of status webhooks:
\* a delivered or sent receipt that arrives after the Message was marked
\* read leaves the status at read.
C36_StatusNeverMovesBackward ==
    [][ \A i \in DOMAIN msgs : ~Before(msgs'[i].status, msgs[i].status) ]_vars

\* A read receipt has been applied to a sent Message.
C36_ReadApplied ==
    /\ last.op = "status" /\ last.arg = <<ProviderMessageId(1), "read">>
    /\ Len(msgs) >= 1 /\ msgs[1].status = "read" /\ msgs[1].direction = "outbound"


\* ------------------------------------------------------------------ C37
\* The contact a finished send or start request named, when it is a stored
\* contact whose active flag is off at the time the request arrives.
RequestToInactive ==
    /\ last'.op \in {"send", "start"}
    /\ Len(last'.arg) >= 1
    /\ last'.arg[1] \in ContactIds
    /\ ~contacts[last'.arg[1]].is_active

\* C37: once a contact has opted out, a send or start_conversation request
\* for it makes no adapter send and creates no Message and no Conversation
\* for as long as the contact stays inactive.
C37_OptedOutContactNotMessaged ==
    [][ RequestToInactive =>
            /\ adapterCalls' = {}
            /\ msgs' = msgs
            /\ convs' = convs ]_vars

\* A start request for an opted-out contact that went to the provider.
C37_StartedAfterOptOut ==
    /\ last.op = "start"
    /\ last.code = 201
    /\ last.arg = <<1>>
    /\ ~contacts[1].is_active
    /\ adapterCalls # {}


\* ------------------------------------------------------------------ C38
\* A send or start request whose adapter call the provider accepted.
ProviderAccepted ==
    /\ last'.op \in {"send", "start"}
    /\ \E call \in adapterCalls' : call.result = "ok"

\* C38: the dispatcher marks a Message failed only if the provider did not
\* accept it: after the adapter returned success, nothing later in the same
\* request (the on_send write, the rate-limiter record raising) leaves the
\* Message failed or its Conversation failed.
C38_AcceptedMessageStaysSent ==
    [][ ProviderAccepted =>
            /\ Len(msgs') = Len(msgs) + 1
            /\ msgs'[Len(msgs')].status = "sent"
            /\ last'.op = "start" =>
                  /\ Len(convs') = Len(convs) + 1
                  /\ convs'[Len(convs')].status # "failed" ]_vars

\* A Message that carries a provider id and a sent time and is failed.
C38_DeliveredButFailed ==
    \E i \in DOMAIN msgs :
        /\ msgs[i].status = "failed"
        /\ msgs[i].channel_message_id # 0
        /\ msgs[i].sent_at = now
        /\ last.code = 500


\* ------------------------------------------------------------------ C39
\* The flows under a fair sweep: Celery Beat keeps scheduling
\* check_conversation_timeouts and time keeps passing, so both are weakly
\* fair; requests and replies come when the outside world sends them. The
\* clock of the model stops at MaxTime, so conversations start while their
\* deadline is still ahead of that.
LiveStart ==
    /\ now + 1 <= MaxTime
    /\ StartRequests({1}, {"clarification", "accountant_digest"})
LiveInbound == WhatsAppDeliveries({ReplyBody})

NextLive ==
    \/ LiveStart
    \/ LiveInbound
    \/ Sweep
    \/ Tick

SpecLive == Init /\ [][NextLive]_vars /\ WF_vars(Sweep) /\ WF_vars(Tick)

WaitingReply(i) == i \in DOMAIN convs /\ convs[i].status = "waiting_reply"
InProcessing(i) == i \in DOMAIN convs /\ convs[i].current_state = "processing"

\* C39: with the sweep running fairly, every conversation whose status is
\* waiting_reply, whatever its current_state, eventually has another status.
C39_WaitingReplyEventuallyEnds ==
    \A i \in 1..MaxConvs : WaitingReply(i) ~> ~WaitingReply(i)

\* The same for the conversations nobody has replied to: they leave
\* waiting_reply or are moved to processing by a reply.
C39_UnansweredEventuallyEndsOrProcessing ==
    \A i \in 1..MaxConvs :
        (WaitingReply(i) /\ ~InProcessing(i)) ~> (~WaitingReply(i) \/ InProcessing(i))

\* A replied-to conversation past its deadline that a sweep left as it was.
C39_SweptInProcessing ==
    /\ last.op = "sweep"
    /\ last.code = 0
    /\ WaitingReply(1) /\ InProcessing(1)
    /\ TimedOut(convs[1], now)


\* At any time of the clock, no request, reply or sweep changes the row of
\* a conversation that is in processing: the run that stays there is not
\* an effect of the clock stopping at MaxTime.
C39_ProcessingRowNeverChanges ==
    [][ \A i \in DOMAIN convs : InProcessing(i) => convs'[i] = convs[i] ]_vars

====
